---- MODULE Spec2Model ----
(***************************************************************************)
(* A model of the PeIterator library: Header (address resolution and data  *)
(* directories), the Import / DelayedImport module and function iterators, *)
(* the Export lookups and iterator, the Relocation iterators, the Tls,      *)
(* Section and Exception iterators.  Pointers are natural numbers, nullptr *)
(* is 0.                                                                   *)
(***************************************************************************)
EXTENDS Integers, Sequences, FiniteSets, TLC

VARIABLES
    imageBase,      \* Header::imageBase_
    imageType,      \* Header::imageType_
    fileAlignment,  \* OptionalHeader::FileAlignment
    sections,       \* the section headers, NumberOfSections = Len(sections)
    dataDirectory,  \* OptionalHeader::DataDirectory, by directory index
    op,             \* the Header operation called last
    arg,            \* its argument
    ret,            \* the pointer it returned
    resolved,       \* the RVAs it handed to RvaToVA, in call order
    repeated,       \* the pointers the same call returned when made again
    kind,           \* the class iterated: Import, DelayedImport, Relocation, Tls, ...
    descriptors,    \* the descriptors, blocks or callbacks stored for the iterator to walk
    directoryDescriptor, \* directoryDescriptor_ of the Import, Relocation or Tls object
    it,             \* the pointer member of the loop's iterator
    pc,             \* the position of the iteration protocol
    visited,        \* the iterator positions the loop body has visited, in order
    reads,          \* the addresses the iterator has read a descriptor from
    overrun,        \* how many of those lie past the stored descriptors
    exportDescriptor, \* Export::directoryDescriptor_
    Base,           \* ExportDirectoryDescriptor::Base
    Names,          \* the name RVAs at AddressOfNames, NumberOfNames = Len(Names)
    Ordinals,       \* the hints at AddressOfNameOrdinals, one per name
    Functions,      \* the RVAs at AddressOfFunctions, NumberOfFunctions = Len(Functions)
    epc,            \* the position of the Export lookup
    lookup,         \* which FindFunction overload runs: "name" or "ordinal"
    function,       \* FindFunction(const char* function): the name looked up
    ordinal,        \* FindFunction(WORD ordinal): the ordinal looked up
    left,           \* the binary search's left
    right,          \* the binary search's right
    iterations,     \* the iterations of the binary search's loop so far
    nameReads,      \* each curPos the loop has read Names[curPos] at, in order
    ordinalReads,   \* each index tables_.Ordinals was read at
    functionReads,  \* each index tables_.Functions was read at
    result,         \* the Function returned
    previous,       \* the Function the lookup before this one returned
    index_,         \* Export::Iterator::index_ of the loop's iterator
    entries,        \* what the loop body read from the iterator at each visit, in order
    relocIndex,     \* RelocationIterator::index_ of the inner loop's iterator
    fixups,         \* what the inner loop's body read from the iterator at each visit
    addressOfCallBacks, \* TlsDirectoryDescriptor::AddressOfCallBacks
    optImageBase,   \* OptionalHeader::ImageBase
    thunks,         \* the import lookup table of the module iterated
    addresses,      \* the import address table of the module iterated
    functionIndex,  \* FunctionIterator::index_ of the loop's iterator
    decoded,        \* what the loop body read from the function iterator at each visit
    section_,       \* Section::section_
    count_,         \* Section::count_
    sectionIndex    \* Section::Iterator::index_ of the loop's iterator

hdrVars == <<imageBase, imageType, fileAlignment, sections, dataDirectory>>
callVars == <<op, arg, ret, resolved, repeated>>
impVars == <<kind, descriptors, directoryDescriptor, it, pc, visited, reads, overrun>>
expTables == <<exportDescriptor, Base, Names, Ordinals, Functions>>
expVars == <<expTables, epc, lookup, function, ordinal, left, right, iterations,
             nameReads, ordinalReads, functionReads, result, previous>>
walkVars == <<index_, entries>>
relVars == <<relocIndex, fixups>>
tlsVars == <<addressOfCallBacks, optImageBase>>
thunkVars == <<thunks, addresses, functionIndex, decoded>>
secVars == <<section_, count_, sectionIndex>>
dirVars == <<relVars, tlsVars, thunkVars, secVars>>
vars == <<hdrVars, callVars, impVars, expVars, walkVars, dirVars>>

-----------------------------------------------------------------------------
(* Widths and directory indices *)

\* DWORD / RVA arithmetic is unsigned and wraps.  TLC's integers are 32-bit
\* signed, so the wrap is modelled at 2^30; every value of the model is far
\* below either modulus.
DwordBits == 30
DWORD == 2^DwordBits

kModule == "kModule"
kFile == "kFile"

ExportDirectoryIndex == 0
ImportDirectoryIndex == 1
DelayImportDirectoryIndex == 13

\* The directory slots the Header specification draws; the slots are handled
\* alike by GetDirectoryDescriptor.
DirectoryIndices == {ImportDirectoryIndex, DelayImportDirectoryIndex}

-----------------------------------------------------------------------------
(* Bounds of the model *)

BufferLength == 24
MaxSections == 2

ImageBases == {64, 4096}
FileAlignments == {2, 4}
SectionHeaders ==
    [VirtualAddress : {8, 16}, SizeOfRawData : {5}, PointerToRawData : {4, 12}]
    \cup {[VirtualAddress |-> 8, SizeOfRawData |-> 0, PointerToRawData |-> 4]}
DirectoryEntries == [VirtualAddress : {0, 8}, Size : {0, 4}]

RECURSIVE SeqsUpTo(_, _)
SeqsUpTo(S, n) ==
    IF n = 0 THEN {<<>>}
    ELSE LET shorter == SeqsUpTo(S, n - 1)
         IN  shorter \cup {Append(q, x) : q \in {r \in shorter : Len(r) = n - 1}, x \in S}

-----------------------------------------------------------------------------
(* Header *)

RECURSIVE BitAnd(_, _, _)
BitAnd(a, b, bits) ==
    IF bits = 0 THEN 0
    ELSE (IF a % 2 = 1 /\ b % 2 = 1 THEN 1 ELSE 0)
         + 2 * BitAnd(a \div 2, b \div 2, bits - 1)

BitNot(a) == DWORD - 1 - a

\* RealSize without the padding to the file alignment.
RealSize_Unaligned(section) == section.SizeOfRawData

\* section->SizeOfRawData + (fileAlignment - 1) & ~(fileAlignment - 1)
RealSize(section) ==
    LET mask == (fileAlignment + DWORD - 1) % DWORD
    IN  BitAnd((section.SizeOfRawData + mask) % DWORD, BitNot(mask), DwordBits)

SectionMatches(section, rva) ==
    /\ rva >= section.VirtualAddress
    /\ rva < (section.VirtualAddress + RealSize(section)) % DWORD

RECURSIVE ScanSections(_, _)
ScanSections(cx, rva) ==
    IF cx > Len(sections) THEN 0
    ELSE IF SectionMatches(sections[cx], rva)
         THEN imageBase
              + ((rva + DWORD - sections[cx].VirtualAddress + sections[cx].PointerToRawData) % DWORD)
         ELSE ScanSections(cx + 1, rva)

\* RvaToVA that scans the sections under either layout.
RvaToVA_AlwaysScan(rva) == ScanSections(1, rva)

RvaToVA(rva) ==
    IF imageType = kModule THEN imageBase + rva ELSE ScanSections(1, rva)

GetDataDirectory(directory) == dataDirectory[directory]

\* GetDirectoryDescriptor that tests the VirtualAddress field alone.
GetDirectoryDescriptor_AddressOnly(directory) ==
    LET dd == GetDataDirectory(directory)
    IN  IF dd.VirtualAddress # 0
        THEN [ptr |-> RvaToVA(dd.VirtualAddress), resolved |-> <<dd.VirtualAddress>>]
        ELSE [ptr |-> 0, resolved |-> <<>>]

\* The pointer returned, and the RVAs resolved on the way.
GetDirectoryDescriptor(directory) ==
    LET dd == GetDataDirectory(directory)
    IN  IF dd.VirtualAddress # 0 /\ dd.Size # 0
        THEN [ptr |-> RvaToVA(dd.VirtualAddress), resolved |-> <<dd.VirtualAddress>>]
        ELSE [ptr |-> 0, resolved |-> <<>>]

-----------------------------------------------------------------------------
(* Specification of the Header operations *)

InitHeader ==
    /\ imageBase \in ImageBases
    /\ imageType \in {kModule, kFile}
    /\ fileAlignment \in FileAlignments
    /\ sections \in SeqsUpTo(SectionHeaders, MaxSections)
    /\ dataDirectory \in [DirectoryIndices -> DirectoryEntries]

InitCalls ==
    /\ op = "none"
    /\ arg = 0
    /\ ret = 0
    /\ resolved = <<>>
    /\ repeated = <<>>

\* No import iteration is under way.
NoImport ==
    /\ kind = "none"
    /\ descriptors = <<>>
    /\ directoryDescriptor = 0
    /\ it = 0
    /\ pc = "none"
    /\ visited = <<>>
    /\ reads = <<>>
    /\ overrun = 0

\* No export lookup is under way.
NoExport ==
    /\ exportDescriptor = 0
    /\ Base = 0
    /\ Names = <<>>
    /\ Ordinals = <<>>
    /\ Functions = <<>>
    /\ epc = "none"
    /\ lookup = "none"
    /\ function = <<>>
    /\ ordinal = 0
    /\ left = 0
    /\ right = 0
    /\ iterations = 0
    /\ nameReads = <<>>
    /\ ordinalReads = <<>>
    /\ functionReads = <<>>
    /\ result = [address |-> 0, ordinal |-> 0, forwarded |-> FALSE]
    /\ previous = [address |-> 0, ordinal |-> 0, forwarded |-> FALSE]
    /\ index_ = 0
    /\ entries = <<>>

CallRvaToVA_Rebasing ==
    \E rva \in 0 .. BufferLength - 1 :
        /\ op = "none"
        /\ op' = "RvaToVA"
        /\ arg' = rva
        /\ ret' = RvaToVA(rva)
        /\ resolved' = <<rva>>
        /\ repeated' = <<>>
        /\ imageBase' = IF ret' = 0 THEN imageBase ELSE ret'
        /\ UNCHANGED <<imageType, fileAlignment, sections, dataDirectory>>
        /\ UNCHANGED <<impVars, expVars, walkVars, dirVars>>

\* A caller invokes header.RvaToVA(rva).
CallRvaToVA ==
    \E rva \in 0 .. BufferLength - 1 :
        /\ op = "none"
        /\ op' = "RvaToVA"
        /\ arg' = rva
        /\ ret' = RvaToVA(rva)
        /\ resolved' = <<rva>>
        /\ repeated' = <<>>
        /\ UNCHANGED <<hdrVars, impVars, expVars, walkVars, dirVars>>

\* A caller invokes header.GetDirectoryDescriptor(directory).
CallGetDirectoryDescriptor ==
    \E directory \in DirectoryIndices :
        /\ op = "none"
        /\ op' = "GetDirectoryDescriptor"
        /\ arg' = directory
        /\ ret' = GetDirectoryDescriptor(directory).ptr
        /\ resolved' = GetDirectoryDescriptor(directory).resolved
        /\ repeated' = <<>>
        /\ UNCHANGED <<hdrVars, impVars, expVars, walkVars, dirVars>>

\* The caller is done with the returned pointer; the Header is as before.
Discard ==
    /\ op # "none"
    /\ op' = "none"
    /\ arg' = 0
    /\ ret' = 0
    /\ resolved' = <<>>
    /\ repeated' = <<>>
    /\ UNCHANGED <<hdrVars, impVars, expVars, walkVars, dirVars>>

\* The caller makes the call it made last a second time, on the same Header.
Repeat ==
    /\ op # "none"
    /\ repeated = <<>>
    /\ repeated' = Append(repeated, IF op = "RvaToVA" THEN RvaToVA(arg)
                                    ELSE GetDirectoryDescriptor(arg).ptr)
    /\ UNCHANGED <<op, arg, ret, resolved>>
    /\ UNCHANGED <<hdrVars, impVars, expVars, walkVars, dirVars>>

\* No relocation, TLS, thunk or section iteration is under way.
NoDirectoryWalk ==
    /\ relocIndex = 0
    /\ fixups = <<>>
    /\ addressOfCallBacks = 0
    /\ optImageBase = 0
    /\ thunks = <<>>
    /\ addresses = <<>>
    /\ functionIndex = 0
    /\ decoded = <<>>
    /\ section_ = 0
    /\ count_ = 0
    /\ sectionIndex = 0

HeaderInit == InitHeader /\ InitCalls /\ NoImport /\ NoExport /\ NoDirectoryWalk
HeaderNext == CallRvaToVA \/ CallGetDirectoryDescriptor \/ Repeat \/ Discard
HeaderSpec == HeaderInit /\ [][HeaderNext]_vars

-----------------------------------------------------------------------------
(* Import and DelayedImport: the module iterators *)

MaxDescriptors == 3
MaxOverrun == 2

ImportKind == "Import"
DelayedImportKind == "DelayedImport"

\* sizeof(ImportDirectoryDescriptor), sizeof(DelayImportDirectoryDescriptor)
ImportDescriptorSize == 20
DelayImportDescriptorSize == 32

ImportDescriptors ==
    {[Characteristics |-> c, Name |-> n, FirstThunk |-> IF c = 0 /\ n = 0 THEN 0 ELSE 56] :
        c \in {0, 40}, n \in {0, 48}}
DelayImportDescriptors ==
    {[DllNameRVA |-> n, ImportNameTableRVA |-> t,
      ImportAddressTableRVA |-> IF n = 0 /\ t = 0 THEN 0 ELSE 56] :
        n \in {0, 48}, t \in {0, 40}}

DescriptorsOf(k) == IF k = ImportKind THEN ImportDescriptors ELSE DelayImportDescriptors
DescriptorSize == IF kind = ImportKind THEN ImportDescriptorSize ELSE DelayImportDescriptorSize
DirectoryIndexOf(k) == IF k = ImportKind THEN ImportDirectoryIndex ELSE DelayImportDirectoryIndex

\* Where the descriptor array lies in the buffer, 0 if the directory is absent
\* or its address does not resolve.
ArrayBase == GetDirectoryDescriptor(DirectoryIndexOf(kind)).ptr
ArrayEnd == ArrayBase + Len(descriptors) * DescriptorSize

InArray(ptr) ==
    /\ ArrayBase # 0
    /\ ArrayBase <= ptr
    /\ ptr < ArrayEnd
    /\ (ptr - ArrayBase) % DescriptorSize = 0

Deref(ptr) == descriptors[(ptr - ArrayBase) \div DescriptorSize + 1]

\* directoryDescriptor_->Characteristics, directoryDescriptor_->DllNameRVA
SentinelField(descriptor) ==
    IF kind = ImportKind THEN descriptor.Characteristics ELSE descriptor.DllNameRVA

\* Import::IsValid, DelayedImport::IsValid
ImportIsValid == directoryDescriptor # 0

\* ModuleIterator::operator==(IteratorEnd) and operator!=(IteratorEnd), from
\* the value of ModuleIterator::IsValid().
ModuleEqualsEnd(valid) == valid
ModuleDiffersFromEnd(valid) == ~valid

\* Import(header), DelayedImport(header)
ImportConstruct ==
    /\ pc = "new"
    /\ directoryDescriptor' = GetDirectoryDescriptor(DirectoryIndexOf(kind)).ptr
    /\ pc' = "constructed"
    /\ UNCHANGED <<kind, descriptors, it, visited, reads, overrun>>
    /\ UNCHANGED <<hdrVars, callVars, expVars, walkVars, dirVars>>

\* it = begin()
ModuleBegin ==
    /\ pc = "constructed"
    /\ it' = directoryDescriptor
    /\ pc' = "test"
    /\ UNCHANGED <<kind, descriptors, directoryDescriptor, visited, reads, overrun>>
    /\ UNCHANGED <<hdrVars, callVars, expVars, walkVars, dirVars>>

\* The loop goes on into its body or ends, by it != end().
LoopOn(valid) == pc' = IF ModuleDiffersFromEnd(valid) THEN "body" ELSE "done"

\* it != end(): ModuleIterator::IsValid() tests the pointer, then reads the
\* sentinel field through it.  A read below the buffer (a pointer advanced
\* from nullptr) faults; a read past the stored descriptors finds whatever
\* bytes follow them.
ModuleTest ==
    /\ pc = "test"
    /\ \/ /\ it = 0
          /\ LoopOn(FALSE)
          /\ UNCHANGED <<reads, overrun>>
       \/ /\ InArray(it)
          /\ reads' = Append(reads, it)
          /\ LoopOn(SentinelField(Deref(it)) # 0)
          /\ UNCHANGED overrun
       \/ /\ it # 0
          /\ it < imageBase
          /\ reads' = Append(reads, it)
          /\ pc' = "crashed"
          /\ UNCHANGED overrun
       \/ /\ ArrayBase # 0
          /\ it >= ArrayEnd
          /\ overrun < MaxOverrun
          /\ reads' = Append(reads, it)
          /\ overrun' = overrun + 1
          /\ \E valid \in BOOLEAN : LoopOn(valid)
    /\ UNCHANGED <<kind, descriptors, directoryDescriptor, it, visited>>
    /\ UNCHANGED <<hdrVars, callVars, expVars, walkVars, dirVars>>

\* visit *it: operator* returns the iterator itself.
ModuleVisit ==
    /\ pc = "body"
    /\ visited' = Append(visited, it)
    /\ pc' = "incr"
    /\ UNCHANGED <<kind, descriptors, directoryDescriptor, it, reads, overrun>>
    /\ UNCHANGED <<hdrVars, callVars, expVars, walkVars, dirVars>>

\* ++it
ModuleIncrement ==
    /\ pc = "incr"
    /\ it' = it + DescriptorSize
    /\ pc' = "test"
    /\ UNCHANGED <<kind, descriptors, directoryDescriptor, visited, reads, overrun>>
    /\ UNCHANGED <<hdrVars, callVars, expVars, walkVars, dirVars>>

ImportSections ==
    {<<>>, <<[VirtualAddress |-> 8, SizeOfRawData |-> 5, PointerToRawData |-> 4]>>}

ImportInit ==
    /\ imageBase \in ImageBases
    /\ imageType \in {kModule, kFile}
    /\ fileAlignment \in FileAlignments
    /\ sections \in ImportSections
    /\ kind \in {ImportKind, DelayedImportKind}
    /\ \E entry \in DirectoryEntries :
          dataDirectory = [d \in DirectoryIndices |->
                              IF d = DirectoryIndexOf(kind) THEN entry
                              ELSE [VirtualAddress |-> 0, Size |-> 0]]
    /\ descriptors \in SeqsUpTo(DescriptorsOf(kind), MaxDescriptors) \ {<<>>}
    /\ directoryDescriptor = 0
    /\ it = 0
    /\ pc = "new"
    /\ visited = <<>>
    /\ reads = <<>>
    /\ overrun = 0
    /\ InitCalls
    /\ NoExport
    /\ NoDirectoryWalk

ImportNext == ImportConstruct \/ ModuleBegin \/ ModuleTest \/ ModuleVisit \/ ModuleIncrement
ImportSpec == ImportInit /\ [][ImportNext]_vars

-----------------------------------------------------------------------------
(* Export: the lookups by name and by ordinal *)

MaxNames == 3
MaxIterations == 4

\* Ordinal is a 16-bit value.
WORD == 2^16

AllDirectoryIndices == DirectoryIndices \cup {ExportDirectoryIndex}

\* The export directory's entry of the data directory, when present.
ExportDirectoryEntry == [VirtualAddress |-> 8, Size |-> 16]
ExportSections ==
    <<[VirtualAddress |-> 8, SizeOfRawData |-> 96, PointerToRawData |-> 4]>>

\* The NUL-terminated strings of the image by RVA: "A", "AB", "B".
StringPool == (40 :> <<1>>) @@ (44 :> <<1, 2>>) @@ (48 :> <<2>>)
NameRvas == DOMAIN StringPool

\* The names looked up: those of the pool, and "", "AA", "C".
QueryNames == {StringPool[r] : r \in NameRvas} \cup {<<>>, <<1, 1>>, <<3>>}

\* Functions tables: the even entries are forwarder strings inside the
\* export directory, the odd ones code.
FunctionTable(count) ==
    [i \in 1 .. count |-> IF i % 2 = 0 THEN 8 + 2 * i ELSE 60 + 4 * i]

\* NameOrdinals tables of n hints into count functions.
OrdinalTables(n, count) ==
    {[i \in 1 .. n |-> i - 1], [i \in 1 .. n |-> n - i], [i \in 1 .. n |-> count - n + i - 1]}

\* What a read outside a table may find.
GarbageRvas == {12, 64}

\* The string a char pointer points at.
NameAt(ptr) == StringPool[CHOOSE r \in NameRvas : RvaToVA(r) = ptr]

CharAt(str, i) == IF i <= Len(str) THEN str[i] ELSE 0

RECURSIVE StrcmpFrom(_, _, _)
StrcmpFrom(a, b, i) ==
    IF CharAt(a, i) # CharAt(b, i) THEN CharAt(a, i) - CharAt(b, i)
    ELSE IF CharAt(a, i) = 0 THEN 0
    ELSE StrcmpFrom(a, b, i + 1)

strcmp(a, b) == StrcmpFrom(a, b, 1)

GetCountFunctions == Len(Functions)
GetCountOfFunctionsNames == Len(Names)
ExportIsValid == exportDescriptor # 0

\* IsForwarded with the bounds of the directory's range counted in.
IsForwarded_Inclusive(rva) ==
    LET dd == GetDataDirectory(ExportDirectoryIndex)
    IN  rva >= dd.VirtualAddress /\ rva <= (dd.VirtualAddress + dd.Size) % DWORD

\* Export::IsForwarded(RVA rva)
IsForwarded(rva) ==
    LET dd == GetDataDirectory(ExportDirectoryIndex)
    IN  rva > dd.VirtualAddress /\ rva < (dd.VirtualAddress + dd.Size) % DWORD

\* Function(address, ordinal, isForwarded); return {} is the empty Function.
Function(address, ord, isForwarded) ==
    [address |-> address, ordinal |-> ord % WORD, forwarded |-> isForwarded]
Absent == [address |-> 0, ordinal |-> 0, forwarded |-> FALSE]

\* Function::GetAddress, GetForwardedName, GetOrdinal
GetAddress(f) == IF f.forwarded THEN 0 ELSE f.address
GetForwardedName(f) == IF f.forwarded THEN f.address ELSE 0
GetOrdinal(f) == f.ordinal

\* The hint read at the index the search ended on.
NameHint_Index(index) == index

\* Ordinal functionHint = tables_.Ordinals[left]
NameHint(index) == Ordinals[index + 1]

\* The ordinal of a named function taken to be its hint.
NameOrdinal_HintOnly(functionHint) == functionHint

\* GetDirectoryDescriptor()->Base + functionHint
NameOrdinal(functionHint) == (Base + functionHint) % DWORD

\* The by-ordinal lookup that takes the ordinal itself for the hint.
FindFunctionByOrdinal_NoBase(ord) ==
    IF ~ExportIsValid \/ ord = 0
    THEN [result |-> Absent, reads |-> <<>>]
    ELSE IF ord >= GetCountFunctions
         THEN [result |-> Absent, reads |-> <<>>]
         ELSE [result |-> Function(RvaToVA(Functions[ord + 1]), ord,
                                   IsForwarded(Functions[ord + 1])),
               reads |-> <<ord>>]

\* FindFunction(WORD ordinal): the Function returned and the indices
\* tables_.Functions was read at.
FindFunctionByOrdinal(ord) ==
    IF ~ExportIsValid \/ ord = 0
    THEN [result |-> Absent, reads |-> <<>>]
    ELSE LET functionHint == (ord + DWORD - Base) % DWORD
         IN  IF functionHint >= GetCountFunctions
             THEN [result |-> Absent, reads |-> <<>>]
             ELSE [result |-> Function(RvaToVA(Functions[functionHint + 1]), ord,
                                       IsForwarded(Functions[functionHint + 1])),
                   reads |-> <<functionHint>>]

\* Export(header): reads the three table addresses through
\* directoryDescriptor_, which faults on nullptr.
ExportConstruct ==
    /\ epc = "new"
    /\ exportDescriptor' = GetDirectoryDescriptor(ExportDirectoryIndex).ptr
    /\ epc' = IF exportDescriptor' = 0 THEN "crashed" ELSE "ready"
    /\ UNCHANGED <<Base, Names, Ordinals, Functions, lookup, function, ordinal, left, right,
                   iterations, nameReads, ordinalReads, functionReads, result, previous>>
    /\ UNCHANGED <<hdrVars, callVars, impVars, walkVars, dirVars>>

\* FindFunction(const char* function) up to the loop.
FindByNameBegin ==
    \E name \in QueryNames :
        /\ epc = "ready"
        /\ lookup' = "name"
        /\ function' = name
        /\ IF ~ExportIsValid
           THEN epc' = "done" /\ UNCHANGED <<left, right>>
           ELSE epc' = "loop" /\ left' = 0 /\ right' = GetCountOfFunctionsNames
        /\ UNCHANGED <<expTables, ordinal, iterations, nameReads, ordinalReads,
                       functionReads, result, previous>>
        /\ UNCHANGED <<hdrVars, callVars, impVars, walkVars, dirVars>>

\* The rest of one iteration, from the result of strcmp.
Narrow(curPos, cmpRes) ==
    /\ left' = IF cmpRes > 0 THEN left
               ELSE IF cmpRes < 0 THEN (curPos + 1) % DWORD
               ELSE curPos
    /\ right' = IF cmpRes > 0 THEN curPos ELSE right
    /\ epc' = IF cmpRes = 0 \/ left' > right' THEN "after" ELSE "loop"

\* How many reads of Names so far were past the table.
NameOverrun == Cardinality({i \in 1 .. Len(nameReads) : nameReads[i] >= Len(Names)})

\* One iteration of while (left <= right).  Names[curPos] past the table
\* is whatever follows it in the buffer: the comparison may come out either
\* way, or the string read may fault.
FindByNameIterate ==
    /\ epc = "loop"
    /\ iterations < MaxIterations
    /\ LET curPos == (left + ((right - left) \div 2)) % DWORD
       IN  /\ nameReads' = Append(nameReads, curPos)
           /\ \/ /\ curPos < GetCountOfFunctionsNames
                 /\ Narrow(curPos, strcmp(NameAt(RvaToVA(Names[curPos + 1])), function))
              \/ /\ curPos >= GetCountOfFunctionsNames
                 /\ NameOverrun < MaxOverrun
                 /\ \E cmpRes \in {-1, 0, 1} : Narrow(curPos, cmpRes)
              \/ /\ curPos >= GetCountOfFunctionsNames
                 /\ NameOverrun < MaxOverrun
                 /\ epc' = "crashed"
                 /\ UNCHANGED <<left, right>>
    /\ iterations' = iterations + 1
    /\ UNCHANGED <<expTables, lookup, function, ordinal, ordinalReads, functionReads, result,
                   previous>>
    /\ UNCHANGED <<hdrVars, callVars, impVars, walkVars, dirVars>>

\* After the loop: the empty Function if left == right, else the function
\* the hint at left selects.  A table read past its end finds anything.
FindByNameReturn ==
    /\ epc = "after"
    /\ epc' = "done"
    /\ IF left = right
       THEN /\ result' = Absent
            /\ UNCHANGED <<ordinalReads, functionReads>>
       ELSE \E functionHint \in IF left < GetCountOfFunctionsNames
                                THEN {NameHint(left)}
                                ELSE 0 .. GetCountFunctions :
            \E functionRVA \in IF functionHint < GetCountFunctions
                               THEN {Functions[functionHint + 1]}
                               ELSE GarbageRvas :
                /\ ordinalReads' = Append(ordinalReads, left)
                /\ functionReads' = Append(functionReads, functionHint)
                /\ result' = Function(RvaToVA(functionRVA), NameOrdinal(functionHint),
                                      IsForwarded(functionRVA))
    /\ UNCHANGED <<expTables, lookup, function, ordinal, left, right, iterations, nameReads,
                   previous>>
    /\ UNCHANGED <<hdrVars, callVars, impVars, walkVars, dirVars>>

\* FindFunction(WORD ordinal)
FindByOrdinal ==
    \E ord \in 0 .. MaxNames + 5 :
        /\ epc = "ready"
        /\ lookup' = "ordinal"
        /\ ordinal' = ord
        /\ result' = FindFunctionByOrdinal(ord).result
        /\ functionReads' = FindFunctionByOrdinal(ord).reads
        /\ epc' = "done"
        /\ UNCHANGED <<expTables, function, left, right, iterations, nameReads, ordinalReads,
                       previous>>
        /\ UNCHANGED <<hdrVars, callVars, impVars, walkVars, dirVars>>

\* FindFunction(f.GetOrdinal()) for the Function f a lookup by name returned.
FindByOrdinalOfResult ==
    /\ epc = "done"
    /\ lookup = "name"
    /\ lookup' = "roundtrip"
    /\ previous' = result
    /\ ordinal' = GetOrdinal(result)
    /\ result' = FindFunctionByOrdinal(GetOrdinal(result)).result
    /\ functionReads' = FindFunctionByOrdinal(GetOrdinal(result)).reads
    /\ UNCHANGED <<expTables, epc, function, left, right, iterations, nameReads, ordinalReads>>
    /\ UNCHANGED <<hdrVars, callVars, impVars, walkVars, dirVars>>

ExportInit ==
    /\ imageBase \in ImageBases
    /\ imageType \in {kModule, kFile}
    /\ fileAlignment = 4
    /\ sections = ExportSections
    /\ \E entry \in {ExportDirectoryEntry, [VirtualAddress |-> 0, Size |-> 0]} :
          dataDirectory = [d \in AllDirectoryIndices |->
                              IF d = ExportDirectoryIndex THEN entry
                              ELSE [VirtualAddress |-> 0, Size |-> 0]]
    /\ Base \in {0, 2}
    /\ Names \in SeqsUpTo(NameRvas, MaxNames)
    /\ Functions \in {FunctionTable(Len(Names)), FunctionTable(Len(Names) + 1)}
    /\ Ordinals \in OrdinalTables(Len(Names), Len(Functions))
    /\ exportDescriptor = 0
    /\ epc = "new"
    /\ lookup = "none"
    /\ function = <<>>
    /\ ordinal = 0
    /\ left = 0
    /\ right = 0
    /\ iterations = 0
    /\ nameReads = <<>>
    /\ ordinalReads = <<>>
    /\ functionReads = <<>>
    /\ result = Absent
    /\ previous = Absent
    /\ index_ = 0
    /\ entries = <<>>
    /\ InitCalls
    /\ NoImport
    /\ NoDirectoryWalk

ExportNext ==
    \/ ExportConstruct
    \/ FindByNameBegin
    \/ FindByNameIterate
    \/ FindByNameReturn
    \/ FindByOrdinal
    \/ FindByOrdinalOfResult
ExportSpec == ExportInit /\ [][ExportNext]_vars

-----------------------------------------------------------------------------
(* Export: the function iterator *)

MaxFunctions == 3

\* The RVAs a Functions entry holds: an unused slot, the two ends of the
\* export directory's range, a forwarder string inside it, and code.
WalkRvas == {0, 8, 12, 24, 64}

\* Export::Iterator::Validate
Validate(i) == i < GetCountFunctions

\* Export::Iterator::operator!=(IteratorEnd)
ExportDiffersFromEnd(i) == Validate(i)

\* Export::Iterator::operator==(IteratorEnd)
ExportEqualsEnd(i) == Validate(i)

\* Export::Iterator::IsForwarded, GetOrdinal, GetAddress, GetForwardedName
IteratorIsForwarded(i) == IsForwarded(Functions[i + 1])
IteratorGetOrdinal(i) == IF IteratorIsForwarded(i) THEN 0 ELSE (Base + i) % WORD
IteratorGetAddress(i) == IF IteratorIsForwarded(i) THEN 0 ELSE RvaToVA(Functions[i + 1])
IteratorGetForwardedName(i) ==
    IF IteratorIsForwarded(i) THEN RvaToVA(Functions[i + 1]) ELSE 0

\* The RVAs Names[i] may hold when read by Export::Iterator::GetName: the
\* entry of the table, or past the table whatever follows it.
NameEntries(i) == IF i < GetCountOfFunctionsNames THEN {Names[i + 1]} ELSE GarbageRvas

\* Export::Iterator::GetName, for the RVA read at tables_.Names[index_]
IteratorGetName(rva) == RvaToVA(rva)

\* The name RVAs of the pool, in the order of their strings.
SortedNameRvas == <<40, 44, 48>>

\* The Names and NameOrdinals tables beside count functions: every function
\* but the last has a name, in the order of the functions; or every function
\* has a name, the names in the opposite order of their functions.
WalkNameTables(count) ==
    (IF count >= 1 /\ count - 1 <= Len(SortedNameRvas)
     THEN {[names |-> SubSeq(SortedNameRvas, 1, count - 1),
            ordinals |-> [j \in 1 .. count - 1 |-> j - 1]]}
     ELSE {[names |-> <<>>, ordinals |-> <<>>]})
    \cup (IF count >= 1 /\ count <= Len(SortedNameRvas)
          THEN {[names |-> SubSeq(SortedNameRvas, 1, count),
                 ordinals |-> [j \in 1 .. count |-> count - j]]}
          ELSE {})

\* it = begin()
ExportBegin ==
    /\ epc = "ready"
    /\ lookup' = "walk"
    /\ index_' = 0
    /\ epc' = "test"
    /\ UNCHANGED <<expTables, function, ordinal, left, right, iterations, nameReads,
                   ordinalReads, functionReads, result, previous, entries>>
    /\ UNCHANGED <<hdrVars, callVars, impVars, dirVars>>

\* it != end()
ExportTest ==
    /\ epc = "test"
    /\ epc' = IF ExportDiffersFromEnd(index_) THEN "body" ELSE "end"
    /\ UNCHANGED <<expTables, lookup, function, ordinal, left, right, iterations, nameReads,
                   ordinalReads, functionReads, result, previous, walkVars>>
    /\ UNCHANGED <<hdrVars, callVars, impVars, dirVars>>

\* visit *it: the body reads every accessor of the iterator.
ExportVisit ==
    /\ epc = "body"
    /\ nameReads' = Append(nameReads, index_)
    /\ \E nameRva \in NameEntries(index_) :
          entries' = Append(entries, [index |-> index_,
                                      rva |-> Functions[index_ + 1],
                                      forwarded |-> IteratorIsForwarded(index_),
                                      ordinal |-> IteratorGetOrdinal(index_),
                                      address |-> IteratorGetAddress(index_),
                                      forwardedName |-> IteratorGetForwardedName(index_),
                                      name |-> IteratorGetName(nameRva)])
    /\ epc' = "incr"
    /\ UNCHANGED <<expTables, lookup, function, ordinal, left, right, iterations,
                   ordinalReads, functionReads, result, previous, index_>>
    /\ UNCHANGED <<hdrVars, callVars, impVars, dirVars>>

\* ++it
ExportIncrement ==
    /\ epc = "incr"
    /\ index_' = index_ + 1
    /\ epc' = "test"
    /\ UNCHANGED <<expTables, lookup, function, ordinal, left, right, iterations, nameReads,
                   ordinalReads, functionReads, result, previous, entries>>
    /\ UNCHANGED <<hdrVars, callVars, impVars, dirVars>>

ExportWalkInit ==
    /\ imageBase \in ImageBases
    /\ imageType \in {kModule, kFile}
    /\ fileAlignment = 4
    /\ sections = ExportSections
    /\ \E entry \in {ExportDirectoryEntry, [VirtualAddress |-> 0, Size |-> 0]} :
          dataDirectory = [d \in AllDirectoryIndices |->
                              IF d = ExportDirectoryIndex THEN entry
                              ELSE [VirtualAddress |-> 0, Size |-> 0]]
    /\ Base \in {0, 2}
    /\ Functions \in SeqsUpTo(WalkRvas, MaxFunctions)
    /\ \E tables \in WalkNameTables(Len(Functions)) :
          /\ Names = tables.names
          /\ Ordinals = tables.ordinals
    /\ exportDescriptor = 0
    /\ epc = "new"
    /\ lookup = "none"
    /\ function = <<>>
    /\ ordinal = 0
    /\ left = 0
    /\ right = 0
    /\ iterations = 0
    /\ nameReads = <<>>
    /\ ordinalReads = <<>>
    /\ functionReads = <<>>
    /\ result = Absent
    /\ previous = Absent
    /\ index_ = 0
    /\ entries = <<>>
    /\ InitCalls
    /\ NoImport
    /\ NoDirectoryWalk

ExportWalkNext ==
    \/ ExportConstruct
    \/ FindByOrdinal
    \/ ExportBegin
    \/ ExportTest
    \/ ExportVisit
    \/ ExportIncrement
ExportWalkSpec == ExportWalkInit /\ [][ExportWalkNext]_vars

-----------------------------------------------------------------------------
(* Relocation: the block iterator and the relocation iterator *)

MaxBlocks == 3
MaxVisits == 3

BaseRelocationDirectoryIndex == 5
TlsDirectoryIndex == 9
WalkDirectoryIndices == AllDirectoryIndices \cup {BaseRelocationDirectoryIndex, TlsDirectoryIndex}

RelocationKind == "Relocation"

\* sizeof(BaseRelocationDirectoryDescriptor), sizeof(IMAGE_RELOC)
BlockHeaderSize == 8
RelocSize == 2

\* The bytes a block takes in the buffer: its header and its words.
Extent(block) == BlockHeaderSize + RelocSize * Len(block.words)

\* Blocks of a page with zero, one or two relocations (IMAGE_RELOC words:
\* type 3 at offset 4, type 10 at offset 12), and the blocks that end the
\* chain: all-zero, zero VirtualAddress, zero SizeOfBlock; and a block whose
\* SizeOfBlock is less than its own header.
RelocBlocks ==
    {[VirtualAddress |-> 16, SizeOfBlock |-> BlockHeaderSize + RelocSize * Len(w), words |-> w] :
        w \in {<<>>, <<3 * 4096 + 4>>, <<3 * 4096 + 4, 10 * 4096 + 12>>}}
    \cup {[VirtualAddress |-> 0, SizeOfBlock |-> 0, words |-> <<>>],
          [VirtualAddress |-> 0, SizeOfBlock |-> BlockHeaderSize, words |-> <<>>],
          [VirtualAddress |-> 16, SizeOfBlock |-> 0, words |-> <<>>],
          [VirtualAddress |-> 16, SizeOfBlock |-> BlockHeaderSize \div 2, words |-> <<>>]}

\* What an IMAGE_RELOC read past the words of a block may hold.
StrayWords == {0, 3 * 4096 + 4}

\* Where the blocks lie in the buffer, 0 if the directory is absent or its
\* address does not resolve.
RelocBase == GetDirectoryDescriptor(BaseRelocationDirectoryIndex).ptr

RECURSIVE BlockAddress(_)
BlockAddress(k) ==
    IF k = 1 THEN RelocBase ELSE BlockAddress(k - 1) + Extent(descriptors[k - 1])

BlocksEnd == BlockAddress(Len(descriptors) + 1)

AtBlock(ptr) ==
    /\ RelocBase # 0
    /\ \E k \in 1 .. Len(descriptors) : BlockAddress(k) = ptr

BlockAt(ptr) == descriptors[CHOOSE k \in 1 .. Len(descriptors) : BlockAddress(k) = ptr]

\* BlockIterator::GetRelocationsCount
GetRelocationsCount(block) ==
    ((block.SizeOfBlock + DWORD - BlockHeaderSize) % DWORD) \div RelocSize

\* BlockIterator::IsValid, of the block a non-null iterator points at
BlockIsValid(block) == block.SizeOfBlock # 0 /\ block.VirtualAddress # 0

\* BlockIterator::operator!=(IteratorEnd), from the value of IsValid()
BlockDiffersFromEnd(valid) == ~valid

\* BlockIterator::operator==(IteratorEnd), from the value of IsValid()
BlockEqualsEnd(valid) == valid

\* Relocation::IsValid
RelocationIsValid == directoryDescriptor # 0

\* IMAGE_RELOC::offset, IMAGE_RELOC::type
RelocOffset(word) == word % 4096
RelocType(word) == word \div 4096

\* RelocationIterator::GetRelocation()
GetRelocation(block, i) == block.words[i + 1]

\* RelocationIterator::GetAddress, of the iterator over the block at ptr
RelocGetAddress(ptr, i) == ptr + RelocOffset(GetRelocation(BlockAt(ptr), i))

\* RelocationIterator::operator!=(IteratorEnd), from the value of IsValid()
RelocDiffersFromEnd(valid) == valid

\* RelocationIterator::operator==(IteratorEnd), from the value of IsValid()
RelocEqualsEnd(valid) == valid

\* Relocation(header)
RelocationConstruct ==
    /\ kind = RelocationKind
    /\ pc = "new"
    /\ directoryDescriptor' = GetDirectoryDescriptor(BaseRelocationDirectoryIndex).ptr
    /\ pc' = "constructed"
    /\ UNCHANGED <<kind, descriptors, it, visited, reads, overrun>>
    /\ UNCHANGED <<hdrVars, callVars, expVars, walkVars, dirVars>>

\* it = begin()
BlockBegin ==
    /\ kind = RelocationKind
    /\ pc = "constructed"
    /\ it' = directoryDescriptor
    /\ pc' = "test"
    /\ UNCHANGED <<kind, descriptors, directoryDescriptor, visited, reads, overrun>>
    /\ UNCHANGED <<hdrVars, callVars, expVars, walkVars, dirVars>>

BlockLoopOn(valid) == pc' = IF BlockDiffersFromEnd(valid) THEN "body" ELSE "done"

\* it != end(): BlockIterator::IsValid() tests the pointer, then reads
\* SizeOfBlock and VirtualAddress through it.  A read past the stored blocks
\* finds whatever bytes follow them.
BlockTest ==
    /\ kind = RelocationKind
    /\ pc = "test"
    /\ \/ /\ it = 0
          /\ BlockLoopOn(FALSE)
          /\ UNCHANGED <<reads, overrun>>
       \/ /\ AtBlock(it)
          /\ reads' = Append(reads, it)
          /\ BlockLoopOn(BlockIsValid(BlockAt(it)))
          /\ UNCHANGED overrun
       \/ /\ RelocBase # 0
          /\ it >= BlocksEnd
          /\ overrun < MaxOverrun
          /\ reads' = Append(reads, it)
          /\ overrun' = overrun + 1
          /\ \E valid \in BOOLEAN : BlockLoopOn(valid)
    /\ UNCHANGED <<kind, descriptors, directoryDescriptor, it, visited>>
    /\ UNCHANGED <<hdrVars, callVars, expVars, walkVars, dirVars>>

\* visit *it: operator* returns the iterator itself.
BlockVisit ==
    /\ kind = RelocationKind
    /\ pc = "body"
    /\ Len(visited) < MaxVisits
    /\ visited' = Append(visited, it)
    /\ pc' = "incr"
    /\ UNCHANGED <<kind, descriptors, directoryDescriptor, it, reads, overrun>>
    /\ UNCHANGED <<hdrVars, callVars, expVars, walkVars, dirVars>>

\* ++it reads SizeOfBlock through the pointer: this faults on nullptr, and
\* past the stored blocks it adds whatever is found there.
BlockIncrement ==
    /\ kind = RelocationKind
    /\ pc = "incr"
    /\ reads' = Append(reads, it)
    /\ \/ /\ it = 0
          /\ pc' = "crashed"
          /\ UNCHANGED it
       \/ /\ AtBlock(it)
          /\ it' = it + BlockAt(it).SizeOfBlock
          /\ pc' = "test"
       \/ /\ RelocBase # 0
          /\ it >= BlocksEnd
          /\ \E size \in {0, BlockHeaderSize} : it' = it + size
          /\ pc' = "test"
    /\ UNCHANGED <<kind, descriptors, directoryDescriptor, visited, overrun>>
    /\ UNCHANGED <<hdrVars, callVars, expVars, walkVars, dirVars>>

\* The relocations of the first block: block = begin(), found valid by
\* block.IsValid(), then reloc = block.begin().
RelocBegin ==
    /\ kind = RelocationKind
    /\ pc = "constructed"
    /\ directoryDescriptor # 0
    /\ BlockIsValid(BlockAt(directoryDescriptor))
    /\ it' = directoryDescriptor
    /\ reads' = Append(reads, directoryDescriptor)
    /\ relocIndex' = 0
    /\ pc' = "rtest"
    /\ UNCHANGED <<kind, descriptors, directoryDescriptor, visited, overrun, fixups>>
    /\ UNCHANGED <<hdrVars, callVars, expVars, walkVars, tlsVars, thunkVars, secVars>>

\* reloc != end()
RelocTest ==
    /\ pc = "rtest"
    /\ pc' = IF RelocDiffersFromEnd(relocIndex < GetRelocationsCount(BlockAt(it)))
             THEN "rbody" ELSE "rdone"
    /\ UNCHANGED <<hdrVars, callVars, expVars, walkVars, dirVars>>
    /\ UNCHANGED <<kind, descriptors, directoryDescriptor, it, visited, reads, overrun>>

\* visit *reloc: the body reads the relocation and its address.  An index
\* past the words of the block reads whatever bytes follow them.
RelocVisit ==
    /\ pc = "rbody"
    /\ \/ /\ relocIndex < Len(BlockAt(it).words)
          /\ fixups' = Append(fixups,
                              [index |-> relocIndex,
                               offset |-> RelocOffset(GetRelocation(BlockAt(it), relocIndex)),
                               type |-> RelocType(GetRelocation(BlockAt(it), relocIndex)),
                               address |-> RelocGetAddress(it, relocIndex)])
          /\ UNCHANGED overrun
       \/ /\ relocIndex >= Len(BlockAt(it).words)
          /\ overrun < MaxOverrun
          /\ overrun' = overrun + 1
          /\ \E word \in StrayWords :
                fixups' = Append(fixups,
                                 [index |-> relocIndex,
                                  offset |-> RelocOffset(word),
                                  type |-> RelocType(word),
                                  address |-> it + RelocOffset(word)])
    /\ pc' = "rincr"
    /\ UNCHANGED <<kind, descriptors, directoryDescriptor, it, visited, reads, relocIndex>>
    /\ UNCHANGED <<hdrVars, callVars, expVars, walkVars, tlsVars, thunkVars, secVars>>

\* ++reloc
RelocIncrement ==
    /\ pc = "rincr"
    /\ relocIndex' = relocIndex + 1
    /\ pc' = "rtest"
    /\ UNCHANGED <<kind, descriptors, directoryDescriptor, it, visited, reads, overrun, fixups>>
    /\ UNCHANGED <<hdrVars, callVars, expVars, walkVars, tlsVars, thunkVars, secVars>>

RelocationInit ==
    /\ imageBase \in ImageBases
    /\ imageType \in {kModule, kFile}
    /\ fileAlignment = 4
    /\ sections = ExportSections
    /\ kind = RelocationKind
    /\ \E entry \in DirectoryEntries :
          dataDirectory = [d \in WalkDirectoryIndices |->
                              IF d = BaseRelocationDirectoryIndex THEN entry
                              ELSE [VirtualAddress |-> 0, Size |-> 0]]
    /\ descriptors \in SeqsUpTo(RelocBlocks, MaxBlocks) \ {<<>>}
    /\ directoryDescriptor = 0
    /\ it = 0
    /\ pc = "new"
    /\ visited = <<>>
    /\ reads = <<>>
    /\ overrun = 0
    /\ InitCalls
    /\ NoExport
    /\ NoDirectoryWalk

RelocationNext ==
    \/ RelocationConstruct
    \/ BlockBegin
    \/ BlockTest
    \/ BlockVisit
    \/ BlockIncrement
    \/ RelocBegin
    \/ RelocTest
    \/ RelocVisit
    \/ RelocIncrement
RelocationSpec == RelocationInit /\ [][RelocationNext]_vars

-----------------------------------------------------------------------------
(* Tls: the callback iterator *)

MaxCallbacks == 3

TlsKind == "Tls"

\* sizeof(TlsCallback)
CallbackSize == 4

\* The RVA the callback array is stored at, and an RVA of no section.
CallbackArrayRva == 40
UnmappedRva == 4

\* OptionalHeader::ImageBase of a raw file.
PreferredBases == {1024, 4096}

\* The RVAs of the callback functions; 0 stands for the null entry.
CallbackRvas == {0, 64, 68}

\* Tls::GetCallbacks without the reduction to an RVA.
GetCallbacks_NoRebase ==
    IF imageType = kModule THEN addressOfCallBacks ELSE RvaToVA(addressOfCallBacks)

\* Tls::GetCallbacks
GetCallbacks ==
    IF imageType = kModule
    THEN addressOfCallBacks
    ELSE RvaToVA((addressOfCallBacks + DWORD - optImageBase) % DWORD)

\* Tls::IsValid
TlsIsValid == directoryDescriptor # 0

\* Where the callback array lies in the buffer.
CallbackArrayBase == RvaToVA(CallbackArrayRva)
CallbackArrayEnd == CallbackArrayBase + Len(descriptors) * CallbackSize

InCallbackArray(ptr) ==
    /\ CallbackArrayBase <= ptr
    /\ ptr < CallbackArrayEnd
    /\ (ptr - CallbackArrayBase) % CallbackSize = 0

\* *callback_
CallbackAt(ptr) == descriptors[(ptr - CallbackArrayBase) \div CallbackSize + 1]

\* Tls::Iterator::operator!=(IteratorEnd) with the sense of operator==.
TlsDiffersFromEnd_Inverted(valid) == ~valid

\* Tls::Iterator::operator!=(IteratorEnd), from the value of Validate()
TlsDiffersFromEnd(valid) == valid

\* Tls::Iterator::operator==(IteratorEnd), from the value of Validate()
TlsEqualsEnd(valid) == valid

\* Tls(header)
TlsConstruct ==
    /\ kind = TlsKind
    /\ pc = "new"
    /\ directoryDescriptor' = GetDirectoryDescriptor(TlsDirectoryIndex).ptr
    /\ pc' = "constructed"
    /\ UNCHANGED <<kind, descriptors, it, visited, reads, overrun>>
    /\ UNCHANGED <<hdrVars, callVars, expVars, walkVars, dirVars>>

\* it = begin(): GetCallbacks() reads AddressOfCallBacks through
\* directoryDescriptor_, which faults on nullptr.
TlsBegin ==
    /\ kind = TlsKind
    /\ pc = "constructed"
    /\ \/ /\ directoryDescriptor = 0
          /\ reads' = Append(reads, 0)
          /\ pc' = "crashed"
          /\ UNCHANGED it
       \/ /\ directoryDescriptor # 0
          /\ it' = GetCallbacks
          /\ pc' = "test"
          /\ UNCHANGED reads
    /\ UNCHANGED <<kind, descriptors, directoryDescriptor, visited, overrun>>
    /\ UNCHANGED <<hdrVars, callVars, expVars, walkVars, dirVars>>

TlsLoopOn(valid) == pc' = IF TlsDiffersFromEnd(valid) THEN "body" ELSE "done"

\* it != end(): Validate() tests the pointer, then reads the callback through
\* it.  A read outside the stored array finds whatever bytes are there.
TlsTest ==
    /\ kind = TlsKind
    /\ pc = "test"
    /\ \/ /\ it = 0
          /\ TlsLoopOn(FALSE)
          /\ UNCHANGED <<reads, overrun>>
       \/ /\ InCallbackArray(it)
          /\ reads' = Append(reads, it)
          /\ TlsLoopOn(CallbackAt(it) # 0)
          /\ UNCHANGED overrun
       \/ /\ it # 0
          /\ ~InCallbackArray(it)
          /\ overrun < MaxOverrun
          /\ reads' = Append(reads, it)
          /\ overrun' = overrun + 1
          /\ \E valid \in BOOLEAN : TlsLoopOn(valid)
    /\ UNCHANGED <<kind, descriptors, directoryDescriptor, it, visited>>
    /\ UNCHANGED <<hdrVars, callVars, expVars, walkVars, dirVars>>

\* visit *it: operator* returns the iterator itself.
TlsVisit ==
    /\ kind = TlsKind
    /\ pc = "body"
    /\ visited' = Append(visited, it)
    /\ pc' = "incr"
    /\ UNCHANGED <<kind, descriptors, directoryDescriptor, it, reads, overrun>>
    /\ UNCHANGED <<hdrVars, callVars, expVars, walkVars, dirVars>>

\* ++it
TlsIncrement ==
    /\ kind = TlsKind
    /\ pc = "incr"
    /\ it' = it + CallbackSize
    /\ pc' = "test"
    /\ UNCHANGED <<kind, descriptors, directoryDescriptor, visited, reads, overrun>>
    /\ UNCHANGED <<hdrVars, callVars, expVars, walkVars, dirVars>>

\* A loaded image has OptionalHeader::ImageBase at its own address; the
\* callbacks are stored as absolute addresses of that base.
TlsInit ==
    /\ imageBase \in ImageBases
    /\ imageType \in {kModule, kFile}
    /\ fileAlignment = 4
    /\ sections = ExportSections
    /\ kind = TlsKind
    /\ \E entry \in DirectoryEntries :
          dataDirectory = [d \in WalkDirectoryIndices |->
                              IF d = TlsDirectoryIndex THEN entry
                              ELSE [VirtualAddress |-> 0, Size |-> 0]]
    /\ optImageBase \in IF imageType = kModule THEN {imageBase} ELSE PreferredBases
    /\ addressOfCallBacks \in {0, optImageBase + CallbackArrayRva, optImageBase + UnmappedRva}
    /\ \E rvas \in SeqsUpTo(CallbackRvas, MaxCallbacks) \ {<<>>} :
          descriptors = [i \in 1 .. Len(rvas) |->
                            IF rvas[i] = 0 THEN 0 ELSE optImageBase + rvas[i]]
    /\ directoryDescriptor = 0
    /\ it = 0
    /\ pc = "new"
    /\ visited = <<>>
    /\ reads = <<>>
    /\ overrun = 0
    /\ relocIndex = 0
    /\ fixups = <<>>
    /\ thunks = <<>>
    /\ addresses = <<>>
    /\ functionIndex = 0
    /\ decoded = <<>>
    /\ section_ = 0
    /\ count_ = 0
    /\ sectionIndex = 0
    /\ InitCalls
    /\ NoExport

TlsNext == TlsConstruct \/ TlsBegin \/ TlsTest \/ TlsVisit \/ TlsIncrement
TlsSpec == TlsInit /\ [][TlsNext]_vars

-----------------------------------------------------------------------------
(* Import and DelayedImport: the function iterators *)

MaxThunks == 3

\* IMAGE_ORDINAL_FLAG, the top bit of a thunk, at the width DWORD stands for.
OrdinalFlag == DWORD \div 2

\* The thunks of an import lookup table: the RVA of a name record, an RVA of
\* no section, ordinal 7 and ordinal 0.
ThunkValues == {56, UnmappedRva, OrdinalFlag + 7, OrdinalFlag}

\* GetImportLookupTable(): the thunk of the iterator at index i.
ThunkAt(i) == thunks[i + 1]

\* sizeof(ImportLookupTable<Arch>), sizeof(ImportAddressTable<Arch>): one
\* thunk of the DWORD width the model gives a thunk.
ThunkSize == 4

\* directoryDescriptor_->OriginalFirstThunk / ImportNameTableRVA and
\* directoryDescriptor_->FirstThunk / ImportAddressTableRVA
LookupTableRva(descriptor) ==
    IF kind = ImportKind THEN descriptor.Characteristics ELSE descriptor.ImportNameTableRVA
AddressTableRva(descriptor) ==
    IF kind = ImportKind THEN descriptor.FirstThunk ELSE descriptor.ImportAddressTableRVA

\* ModuleIterator::GetImportLookupTable, ModuleIterator::GetImportAddressTable
ModuleGetImportLookupTable == RvaToVA(LookupTableRva(Deref(it)))
ModuleGetImportAddressTable == RvaToVA(AddressTableRva(Deref(it)))

\* FunctionIterator::GetImportLookupTable: &table[index_]
FunctionGetImportLookupTable(i) == ModuleGetImportLookupTable + i * ThunkSize

FunctionGetImportAddressTable_First(i) == ModuleGetImportAddressTable

\* FunctionIterator::GetImportAddressTable: &table[index_]
FunctionGetImportAddressTable(i) == ModuleGetImportAddressTable + i * ThunkSize

\* GetImportAddressTable()->u1.Function: the entry of the address table at
\* index i.
AddressAt(i) == addresses[i + 1]

\* FunctionIterator::IsImportedByOrdinal: IMAGE_SNAP_BY_ORDINAL(u1.Ordinal)
IsImportedByOrdinal(thunk) == BitAnd(thunk, OrdinalFlag, DwordBits) # 0

GetFunctionName_Unscanned(thunk) == IF ~IsImportedByOrdinal(thunk) THEN imageBase + thunk ELSE 0

\* FunctionIterator::GetFunctionName
GetFunctionName(thunk) == IF ~IsImportedByOrdinal(thunk) THEN RvaToVA(thunk) ELSE 0

\* FunctionIterator::GetFunctionOrdinal
GetFunctionOrdinal(thunk) == IF ~IsImportedByOrdinal(thunk) THEN thunk ELSE 0

\* FunctionIterator::IsValid: u1.ForwarderString
FunctionIsValid(thunk) == thunk # 0

\* FunctionIterator::operator!=(IteratorEnd), from the value of IsValid()
FunctionDiffersFromEnd(valid) == valid

\* FunctionIterator::operator==(IteratorEnd), from the value of IsValid()
FunctionEqualsEnd(valid) == valid

\* function = module.begin(), for a module iterator on a valid descriptor
FunctionBegin ==
    /\ pc = "module"
    /\ functionIndex' = 0
    /\ pc' = "ftest"
    /\ UNCHANGED <<kind, descriptors, directoryDescriptor, it, visited, reads, overrun>>
    /\ UNCHANGED <<thunks, addresses, decoded>>
    /\ UNCHANGED <<hdrVars, callVars, expVars, walkVars, relVars, tlsVars, secVars>>

\* function != end()
FunctionTest ==
    /\ pc = "ftest"
    /\ pc' = IF FunctionDiffersFromEnd(FunctionIsValid(ThunkAt(functionIndex)))
             THEN "fbody" ELSE "fdone"
    /\ UNCHANGED <<kind, descriptors, directoryDescriptor, it, visited, reads, overrun>>
    /\ UNCHANGED <<hdrVars, callVars, expVars, walkVars, dirVars>>

\* visit *function: the body reads every accessor of the iterator.
FunctionVisit ==
    /\ pc = "fbody"
    /\ decoded' = Append(decoded,
                         [index |-> functionIndex,
                          thunk |-> ThunkAt(functionIndex),
                          byOrdinal |-> IsImportedByOrdinal(ThunkAt(functionIndex)),
                          name |-> GetFunctionName(ThunkAt(functionIndex)),
                          ordinal |-> GetFunctionOrdinal(ThunkAt(functionIndex)),
                          lookup |-> FunctionGetImportLookupTable(functionIndex),
                          address |-> FunctionGetImportAddressTable(functionIndex),
                          bound |-> AddressAt(functionIndex)])
    /\ pc' = "fincr"
    /\ UNCHANGED <<kind, descriptors, directoryDescriptor, it, visited, reads, overrun>>
    /\ UNCHANGED <<thunks, addresses, functionIndex>>
    /\ UNCHANGED <<hdrVars, callVars, expVars, walkVars, relVars, tlsVars, secVars>>

\* ++function
FunctionIncrement ==
    /\ pc = "fincr"
    /\ functionIndex' = functionIndex + 1
    /\ pc' = "ftest"
    /\ UNCHANGED <<kind, descriptors, directoryDescriptor, it, visited, reads, overrun>>
    /\ UNCHANGED <<thunks, addresses, decoded>>
    /\ UNCHANGED <<hdrVars, callVars, expVars, walkVars, relVars, tlsVars, secVars>>

\* The lookup table of a module: thunks, then the all-zero thunk; its address
\* table: a copy of the lookup table, zeroes, or bound addresses.
ThunkInit ==
    /\ imageBase \in ImageBases
    /\ imageType \in {kModule, kFile}
    /\ fileAlignment = 4
    /\ sections = ExportSections
    /\ kind \in {ImportKind, DelayedImportKind}
    /\ dataDirectory = [d \in WalkDirectoryIndices |->
                           IF d = DirectoryIndexOf(kind)
                           THEN [VirtualAddress |-> 8, Size |-> 4]
                           ELSE [VirtualAddress |-> 0, Size |-> 0]]
    /\ descriptors = <<IF kind = ImportKind
                        THEN [Characteristics |-> 40, Name |-> 48, FirstThunk |-> 56]
                        ELSE [DllNameRVA |-> 48, ImportNameTableRVA |-> 40,
                              ImportAddressTableRVA |-> 56]>>
    /\ directoryDescriptor = GetDirectoryDescriptor(DirectoryIndexOf(kind)).ptr
    /\ it = directoryDescriptor
    /\ pc = "module"
    /\ visited = <<>>
    /\ reads = <<>>
    /\ overrun = 0
    /\ \E named \in SeqsUpTo(ThunkValues, MaxThunks) : thunks = Append(named, 0)
    /\ addresses \in {thunks, [i \in 1 .. Len(thunks) |-> 0],
                       [i \in 1 .. Len(thunks) |-> imageBase + 72]}
    /\ functionIndex = 0
    /\ decoded = <<>>
    /\ relocIndex = 0
    /\ fixups = <<>>
    /\ addressOfCallBacks = 0
    /\ optImageBase = 0
    /\ section_ = 0
    /\ count_ = 0
    /\ sectionIndex = 0
    /\ InitCalls
    /\ NoExport

ThunkNext == FunctionBegin \/ FunctionTest \/ FunctionVisit \/ FunctionIncrement
ThunkSpec == ThunkInit /\ [][ThunkNext]_vars

-----------------------------------------------------------------------------
(* Section: the section header iterator *)

SectionKind == "Section"

\* IMAGE_FIRST_SECTION(header_.GetNtHeaders()): the section table follows the
\* NT headers inside the buffer.
FirstSection == imageBase + BufferLength

\* header_.GetNtHeaders()->FileHeader.NumberOfSections
NumberOfSections == Len(sections)

\* Section::GetCount, Section::IsValid, Section::Empty
GetCount == count_
SectionIsValid == section_ # 0
Empty == GetCount = 0 \/ ~SectionIsValid

SectionIteratorIsValid_Inclusive(i) == section_ # 0 /\ i <= count_

\* Section::Iterator::IsValid
SectionIteratorIsValid(i) == section_ # 0 /\ i < count_

\* Section::Iterator::operator==(IteratorEnd) and operator!=(IteratorEnd)
SectionEqualsEnd(i) == ~SectionIteratorIsValid(i)
SectionDiffersFromEnd(i) == SectionIteratorIsValid(i)

\* Section(section, count): Image::GetSection passes the section table and
\* NumberOfSections; a caller of the constructor may pass nullptr.
SectionConstruct ==
    /\ pc = "new"
    /\ \E section \in {0, FirstSection} :
          section_' = section
    /\ count_' = NumberOfSections
    /\ pc' = "constructed"
    /\ UNCHANGED <<kind, descriptors, directoryDescriptor, it, visited, reads, overrun>>
    /\ UNCHANGED <<sectionIndex, relVars, tlsVars, thunkVars>>
    /\ UNCHANGED <<hdrVars, callVars, expVars, walkVars>>

\* it = begin()
SectionBegin ==
    /\ pc = "constructed"
    /\ sectionIndex' = 0
    /\ pc' = "test"
    /\ UNCHANGED <<kind, descriptors, directoryDescriptor, it, visited, reads, overrun>>
    /\ UNCHANGED <<section_, count_, relVars, tlsVars, thunkVars>>
    /\ UNCHANGED <<hdrVars, callVars, expVars, walkVars>>

\* it != end()
SectionTest ==
    /\ pc = "test"
    /\ pc' = IF SectionDiffersFromEnd(sectionIndex) THEN "body" ELSE "done"
    /\ UNCHANGED <<kind, descriptors, directoryDescriptor, it, visited, reads, overrun>>
    /\ UNCHANGED <<hdrVars, callVars, expVars, walkVars, dirVars>>

\* visit *it: operator* reads section_[index_]; past the section table it
\* finds whatever bytes follow.
SectionVisit ==
    /\ pc = "body"
    /\ reads' = Append(reads, sectionIndex)
    /\ \E header \in IF sectionIndex < NumberOfSections
                     THEN {sections[sectionIndex + 1]} ELSE SectionHeaders :
          visited' = Append(visited, [index |-> sectionIndex, header |-> header])
    /\ pc' = "incr"
    /\ UNCHANGED <<kind, descriptors, directoryDescriptor, it, overrun>>
    /\ UNCHANGED <<hdrVars, callVars, expVars, walkVars, dirVars>>

\* ++it
SectionIncrement ==
    /\ pc = "incr"
    /\ sectionIndex' = sectionIndex + 1
    /\ pc' = "test"
    /\ UNCHANGED <<kind, descriptors, directoryDescriptor, it, visited, reads, overrun>>
    /\ UNCHANGED <<section_, count_, relVars, tlsVars, thunkVars>>
    /\ UNCHANGED <<hdrVars, callVars, expVars, walkVars>>

SectionInit ==
    /\ InitHeader
    /\ kind = SectionKind
    /\ descriptors = <<>>
    /\ directoryDescriptor = 0
    /\ it = 0
    /\ pc = "new"
    /\ visited = <<>>
    /\ reads = <<>>
    /\ overrun = 0
    /\ InitCalls
    /\ NoExport
    /\ NoDirectoryWalk

SectionNext ==
    SectionConstruct \/ SectionBegin \/ SectionTest \/ SectionVisit \/ SectionIncrement
SectionSpec == SectionInit /\ [][SectionNext]_vars

-----------------------------------------------------------------------------
(* Exception: the runtime function iterator *)

ExceptionKind == "Exception"

ExceptionsDirectoryIndex == 3
ExceptionDirectoryIndices == WalkDirectoryIndices \cup {ExceptionsDirectoryIndex}

\* sizeof(ExceptionDirectoryDescriptor), the three DWORDs of RUNTIME_FUNCTION
RuntimeFunctionSize == 12

RuntimeFunctions == [BeginAddress : {0, 16, 32}, EndAddress : {24}]
                    \cup {[BeginAddress |-> 0, EndAddress |-> 0]}

\* Where the runtime function array lies in the buffer, 0 if the directory is
\* absent or its address does not resolve.
ExceptionArrayBase == GetDirectoryDescriptor(ExceptionsDirectoryIndex).ptr
ExceptionArrayEnd == ExceptionArrayBase + Len(descriptors) * RuntimeFunctionSize

InExceptionArray(ptr) ==
    /\ ExceptionArrayBase # 0
    /\ ExceptionArrayBase <= ptr
    /\ ptr < ExceptionArrayEnd
    /\ (ptr - ExceptionArrayBase) % RuntimeFunctionSize = 0

RuntimeFunctionAt(ptr) ==
    descriptors[(ptr - ExceptionArrayBase) \div RuntimeFunctionSize + 1]

\* Exception::IsValid
ExceptionIsValid == directoryDescriptor # 0

ExceptionDiffersFromEnd_Inverted(valid) == ~valid

\* Exception::Iterator::operator==(IteratorEnd) and operator!=(IteratorEnd),
\* from the value of Exception::Iterator::IsValid().
ExceptionEqualsEnd(valid) == valid
ExceptionDiffersFromEnd(valid) == valid

\* Exception(header)
ExceptionConstruct ==
    /\ kind = ExceptionKind
    /\ pc = "new"
    /\ directoryDescriptor' = GetDirectoryDescriptor(ExceptionsDirectoryIndex).ptr
    /\ pc' = "constructed"
    /\ UNCHANGED <<kind, descriptors, it, visited, reads, overrun>>
    /\ UNCHANGED <<hdrVars, callVars, expVars, walkVars, dirVars>>

\* it = begin()
ExceptionBegin ==
    /\ kind = ExceptionKind
    /\ pc = "constructed"
    /\ it' = directoryDescriptor
    /\ pc' = "test"
    /\ UNCHANGED <<kind, descriptors, directoryDescriptor, visited, reads, overrun>>
    /\ UNCHANGED <<hdrVars, callVars, expVars, walkVars, dirVars>>

ExceptionLoopOn(valid) == pc' = IF ExceptionDiffersFromEnd(valid) THEN "body" ELSE "done"

\* it != end(): Iterator::IsValid() tests the pointer, then reads BeginAddress
\* through it; a read past the stored records finds whatever bytes follow.
ExceptionTest ==
    /\ kind = ExceptionKind
    /\ pc = "test"
    /\ \/ /\ it = 0
          /\ ExceptionLoopOn(FALSE)
          /\ UNCHANGED <<reads, overrun>>
       \/ /\ InExceptionArray(it)
          /\ reads' = Append(reads, it)
          /\ ExceptionLoopOn(RuntimeFunctionAt(it).BeginAddress # 0)
          /\ UNCHANGED overrun
       \/ /\ it # 0
          /\ ~InExceptionArray(it)
          /\ overrun < MaxOverrun
          /\ reads' = Append(reads, it)
          /\ overrun' = overrun + 1
          /\ \E valid \in BOOLEAN : ExceptionLoopOn(valid)
    /\ UNCHANGED <<kind, descriptors, directoryDescriptor, it, visited>>
    /\ UNCHANGED <<hdrVars, callVars, expVars, walkVars, dirVars>>

\* visit *it: operator* returns the iterator itself.
ExceptionVisit ==
    /\ kind = ExceptionKind
    /\ pc = "body"
    /\ visited' = Append(visited, it)
    /\ pc' = "incr"
    /\ UNCHANGED <<kind, descriptors, directoryDescriptor, it, reads, overrun>>
    /\ UNCHANGED <<hdrVars, callVars, expVars, walkVars, dirVars>>

\* ++it
ExceptionIncrement ==
    /\ kind = ExceptionKind
    /\ pc = "incr"
    /\ it' = it + RuntimeFunctionSize
    /\ pc' = "test"
    /\ UNCHANGED <<kind, descriptors, directoryDescriptor, visited, reads, overrun>>
    /\ UNCHANGED <<hdrVars, callVars, expVars, walkVars, dirVars>>

ExceptionInit ==
    /\ imageBase \in ImageBases
    /\ imageType \in {kModule, kFile}
    /\ fileAlignment = 4
    /\ sections = ExportSections
    /\ kind = ExceptionKind
    /\ \E entry \in DirectoryEntries :
          dataDirectory = [d \in ExceptionDirectoryIndices |->
                              IF d = ExceptionsDirectoryIndex THEN entry
                              ELSE [VirtualAddress |-> 0, Size |-> 0]]
    /\ descriptors \in SeqsUpTo(RuntimeFunctions, MaxDescriptors) \ {<<>>}
    /\ directoryDescriptor = 0
    /\ it = 0
    /\ pc = "new"
    /\ visited = <<>>
    /\ reads = <<>>
    /\ overrun = 0
    /\ InitCalls
    /\ NoExport
    /\ NoDirectoryWalk

ExceptionNext ==
    \/ ExceptionConstruct
    \/ ExceptionBegin
    \/ ExceptionTest
    \/ ExceptionVisit
    \/ ExceptionIncrement
ExceptionSpec == ExceptionInit /\ [][ExceptionNext]_vars

-----------------------------------------------------------------------------
(* Properties of the Header *)

\* C1: under the Loaded layout (ImageType::kModule) RvaToVA(rva) returns
\* imageBase + rva for every rva of the buffer, whatever the section table
\* holds, and never nullptr.
C1_LoadedResolve ==
    (op = "RvaToVA" /\ imageType = kModule) => (ret = imageBase + arg /\ ret # 0)

\* A loaded image with sections, none of which covers the resolved rva.
C1_Witness ==
    /\ op = "RvaToVA"
    /\ imageType = kModule
    /\ arg = BufferLength - 1
    /\ Len(sections) = MaxSections
    /\ \A i \in 1 .. Len(sections) : sections[i].VirtualAddress = 8

RoundUp(x, alignment) == ((x + alignment - 1) \div alignment) * alignment

InVirtualRange(section, rva) ==
    /\ section.VirtualAddress <= rva
    /\ rva < section.VirtualAddress + RoundUp(section.SizeOfRawData, fileAlignment)

Covering(rva) == {i \in 1 .. Len(sections) : InVirtualRange(sections[i], rva)}

\* C2: under the RawFile layout (ImageType::kFile) an rva inside exactly one
\* section's range [VirtualAddress, VirtualAddress + roundUp(SizeOfRawData,
\* FileAlignment)) resolves to imageBase + (rva - VirtualAddress) +
\* PointerToRawData of that section, and an rva in no section's range
\* resolves to nullptr.
C2_RawFileResolve ==
    (op = "RvaToVA" /\ imageType = kFile) =>
        /\ \A i \in Covering(arg) :
               Covering(arg) = {i} =>
                   ret = imageBase + (arg - sections[i].VirtualAddress)
                         + sections[i].PointerToRawData
        /\ Covering(arg) = {} => ret = 0

\* An rva in the alignment padding of the second of two sections.
C2_Witness ==
    /\ op = "RvaToVA"
    /\ imageType = kFile
    /\ Len(sections) = 2
    /\ Covering(arg) = {2}
    /\ arg >= sections[2].VirtualAddress + sections[2].SizeOfRawData
    /\ ret # 0

\* C3: GetDirectoryDescriptor(index) returns RvaToVA(VirtualAddress) of the
\* entry when its VirtualAddress and Size are both non-zero; otherwise it
\* returns nullptr and resolves no address.
C3_DirectoryDescriptor ==
    op = "GetDirectoryDescriptor" =>
        LET dd == dataDirectory[arg]
        IN  IF dd.VirtualAddress # 0 /\ dd.Size # 0
            THEN ret = RvaToVA(dd.VirtualAddress) /\ resolved = <<dd.VirtualAddress>>
            ELSE ret = 0 /\ resolved = <<>>

\* An entry with an address and no size, in an image where the address
\* would resolve.
C3_Witness ==
    /\ op = "GetDirectoryDescriptor"
    /\ dataDirectory[arg].VirtualAddress # 0
    /\ dataDirectory[arg].Size = 0
    /\ RvaToVA(dataDirectory[arg].VirtualAddress) # 0
    /\ ret = 0

-----------------------------------------------------------------------------
(* Properties of the module iteration *)

\* The row that ends the array: all-zero for imports, DllNameRVA = 0 for
\* delayed imports.
IsSentinelRow(descriptor) ==
    IF kind = ImportKind
    THEN descriptor.Characteristics = 0 /\ descriptor.Name = 0 /\ descriptor.FirstThunk = 0
    ELSE descriptor.DllNameRVA = 0

SentinelRows == {i \in 1 .. Len(descriptors) : IsSentinelRow(descriptors[i])}
FirstSentinel == CHOOSE i \in SentinelRows : \A j \in SentinelRows : i <= j

\* The positions of the descriptors before the first sentinel, in array order.
ModulesBeforeSentinel ==
    [i \in 1 .. FirstSentinel - 1 |-> ArrayBase + (i - 1) * DescriptorSize]

IsPrefix(p, q) == Len(p) <= Len(q) /\ \A i \in 1 .. Len(p) : p[i] = q[i]

DirectoryAbsent ==
    LET dd == dataDirectory[DirectoryIndexOf(kind)]
    IN  dd.VirtualAddress = 0 \/ dd.Size = 0

\* C4: the loop it = begin(); while (it != end()) { visit *it; ++it; } over a
\* descriptor array that a sentinel row terminates visits exactly the
\* descriptors before the first sentinel, each once, in array order, and
\* then stops.
C4_SentinelIteration ==
    (kind # "none" /\ ArrayBase # 0 /\ SentinelRows # {}) =>
        /\ IsPrefix(visited, ModulesBeforeSentinel)
        /\ pc = "done" => visited = ModulesBeforeSentinel
        /\ pc # "crashed"
        /\ overrun = 0

\* C5: with the directory absent, IsValid() is false, the loop visits no
\* module and the iterator reads through no pointer.
C5_AbsentDirectory ==
    (kind # "none" /\ pc # "new" /\ DirectoryAbsent) =>
        /\ ~ImportIsValid
        /\ visited = <<>>
        /\ reads = <<>>

\* C24: Import::ModuleIterator::IsValid() reports a descriptor as the
\* terminator only when every field of it is zero: the test it != end() on a
\* stored descriptor comes out as operator!=(IteratorEnd) makes it for
\* IsValid() = "some field of the descriptor is non-zero".
C24_TerminatorAllZero ==
    (kind = ImportKind /\ pc \in {"body", "done"} /\ InArray(it)) =>
        (pc = "body") = ModuleDiffersFromEnd(~IsSentinelRow(Deref(it)))

-----------------------------------------------------------------------------
(* Properties of the Export lookups *)

\* The lexicographic order of NUL-terminated strings.
LexLess(a, b) ==
    \E k \in 1 .. Len(b) :
        /\ \A j \in 1 .. k - 1 : j <= Len(a) /\ a[j] = b[j]
        /\ (k > Len(a) \/ a[k] < b[k])

NameString(i) == StringPool[Names[i]]

\* The Names table is sorted ascending, no name twice.
NamesSorted ==
    \A i, j \in 1 .. Len(Names) : i < j => LexLess(NameString(i), NameString(j))

\* The rows of the Names table that hold the name looked up.
Matching == {i \in 1 .. Len(Names) : NameString(i) = function}

\* C6: FindFunction(name) on a sorted Names table, for a name equal to
\* Names[i], returns the function whose address is
\* RvaToVA(Functions[NameOrdinals[i]]) and whose ordinal is
\* Base + NameOrdinals[i]; on the way the search keeps row i inside
\* [left, right) and reads no row outside the table.
C6_FindByName ==
    (lookup = "name" /\ NamesSorted) =>
        \A i \in Matching :
            /\ epc = "loop" => (left <= i - 1 /\ i - 1 < right)
            /\ epc # "crashed"
            /\ NameOverrun = 0
            /\ epc = "done" =>
                   /\ result.address = RvaToVA(Functions[Ordinals[i] + 1])
                   /\ result.ordinal = Base + Ordinals[i]

\* The last of MaxNames sorted names is found; its hint is not its row, and
\* the base ordinal is not zero.
C6_Witness ==
    /\ lookup = "name"
    /\ epc = "done"
    /\ NamesSorted
    /\ Len(Names) = MaxNames
    /\ Matching = {MaxNames}
    /\ Ordinals[MaxNames] # MaxNames - 1
    /\ Base # 0
    /\ result.address # 0

\* C7: FindFunction(name) returns the empty Function for every name that is
\* not in a sorted Names table.
C7_AbsentName ==
    (lookup = "name" /\ NamesSorted /\ Matching = {}) =>
        /\ epc # "crashed"
        /\ epc = "done" => result = Absent

\* C8: every index FindFunction(name) reads Names at, and the index it reads
\* NameOrdinals at, is below NumberOfNames, whatever the table and the name.
C8_NameIndexBounds ==
    lookup = "name" =>
        /\ \A k \in 1 .. Len(nameReads) : nameReads[k] < Len(Names)
        /\ \A k \in 1 .. Len(ordinalReads) : ordinalReads[k] < Len(Names)

\* C9: on a sorted Names table every iteration of the search either leaves
\* the loop or strictly shrinks [left, right], so the loop ends.  Stated of
\* the iterations that read inside the table, whose outcome the code fixes.
C9_SearchTerminates ==
    [][(epc = "loop" /\ NamesSorted /\ left + ((right - left) \div 2) < Len(Names)) =>
           (epc' # "loop" \/ right' - left' < right - left)]_vars

\* C10: FindFunction(ordinal) returns the empty Function for ordinal 0, for
\* ordinal < Base and for ordinal - Base >= NumberOfFunctions; otherwise the
\* function at Functions[ordinal - Base] with the ordinal given and the
\* forwarded flag of that RVA.  It reads Functions below NumberOfFunctions.
C10_FindByOrdinal ==
    (lookup = "ordinal" /\ epc = "done") =>
        /\ \A k \in 1 .. Len(functionReads) : functionReads[k] < Len(Functions)
        /\ IF ordinal = 0 \/ ordinal < Base \/ ordinal - Base >= Len(Functions)
           THEN result = Absent /\ functionReads = <<>>
           ELSE LET rva == Functions[ordinal - Base + 1]
                IN  /\ result.address = RvaToVA(rva)
                    /\ result.ordinal = ordinal
                    /\ result.forwarded =
                           (dataDirectory[ExportDirectoryIndex].VirtualAddress < rva
                            /\ rva < dataDirectory[ExportDirectoryIndex].VirtualAddress
                                     + dataDirectory[ExportDirectoryIndex].Size)
                    /\ functionReads = <<ordinal - Base>>

\* The last function of the table, a forwarded one, found by its ordinal
\* under a non-zero base.
C10_Witness ==
    /\ lookup = "ordinal"
    /\ epc = "done"
    /\ Base # 0
    /\ Len(Functions) >= 2
    /\ ordinal = Base + Len(Functions) - 1
    /\ result.forwarded
    /\ result.ordinal = ordinal

\* The original statement of C11: for every name present in a sorted Names
\* table, FindFunction(FindFunction(name).GetOrdinal()) returns a function
\* with the same address and the same forwarded flag.
C11_RoundTrip_Original ==
    (lookup = "roundtrip" /\ NamesSorted /\ Matching # {}) =>
        /\ GetAddress(result) = GetAddress(previous)
        /\ GetForwardedName(result) = GetForwardedName(previous)
        /\ result.forwarded = previous.forwarded

\* C11: for every name present in a sorted Names table whose function has a
\* non-zero ordinal (Base + NameOrdinals[i] in 1 .. 65535),
\* FindFunction(FindFunction(name).GetOrdinal()) returns a function with the
\* same address, the same forwarded flag and the same ordinal.  Ordinal 0 is
\* rejected by the lookup by ordinal, so the function at Base + hint = 0 does
\* not come back.
C11_RoundTrip ==
    (lookup = "roundtrip" /\ NamesSorted /\ Matching # {}) =>
        \A i \in Matching :
            Base + Ordinals[i] \in 1 .. WORD - 1 =>
                /\ GetOrdinal(previous) = Base + Ordinals[i]
                /\ GetAddress(result) = GetAddress(previous)
                /\ GetForwardedName(result) = GetForwardedName(previous)
                /\ result.forwarded = previous.forwarded
                /\ GetOrdinal(result) = GetOrdinal(previous)

\* A forwarded function found by name under a non-zero base, through a hint
\* that is not its row, and found again by its ordinal.
C11_Witness ==
    /\ lookup = "roundtrip"
    /\ NamesSorted
    /\ Len(Names) = MaxNames
    /\ Base # 0
    /\ \E i \in Matching : Ordinals[i] # i - 1
    /\ previous.forwarded
    /\ GetForwardedName(result) # 0
    /\ functionReads # <<>>

-----------------------------------------------------------------------------
(* Properties of the Export entries and of the function iterator *)

\* The RVA lies strictly inside the export data directory's range.
InExportRange(rva) ==
    /\ dataDirectory[ExportDirectoryIndex].VirtualAddress < rva
    /\ rva < dataDirectory[ExportDirectoryIndex].VirtualAddress
             + dataDirectory[ExportDirectoryIndex].Size

\* Forwarded iff in range, and exactly one of address and forwarded name.
ExactlyOnePresent(forwarded, rva, address, forwardedName) ==
    /\ forwarded = InExportRange(rva)
    /\ forwarded => (address = 0 /\ forwardedName # 0)
    /\ ~forwarded => (address # 0 /\ forwardedName = 0)

\* The original statement of C12: an export entry is forwarded iff its RVA
\* lies strictly inside the export directory's range, and exactly one of
\* GetAddress() and GetForwardedName() is present, for every entry the
\* iterator visits and every Function a lookup returns.
C12_Forwarded_Original ==
    /\ \A k \in 1 .. Len(entries) :
           ExactlyOnePresent(entries[k].forwarded, entries[k].rva,
                             entries[k].address, entries[k].forwardedName)
    /\ (lookup = "ordinal" /\ epc = "done" /\ functionReads # <<>>) =>
           ExactlyOnePresent(result.forwarded, Functions[functionReads[1] + 1],
                             GetAddress(result), GetForwardedName(result))

\* Forwarded iff in range; of address and forwarded name the one that goes
\* with the flag is RvaToVA(rva) and the other is absent.
ForwardedDecode(forwarded, rva, address, forwardedName) ==
    /\ forwarded = InExportRange(rva)
    /\ address = IF forwarded THEN 0 ELSE RvaToVA(rva)
    /\ forwardedName = IF forwarded THEN RvaToVA(rva) ELSE 0
    /\ RvaToVA(rva) # 0 => ((address # 0) # (forwardedName # 0))
    /\ RvaToVA(rva) = 0 => (address = 0 /\ forwardedName = 0)

\* C12: an export entry is forwarded iff its Functions-table RVA lies
\* strictly inside the export data directory's range; when that RVA resolves
\* (RvaToVA is not nullptr), a forwarded entry has GetAddress() absent and
\* GetForwardedName() present, a non-forwarded entry the reverse, so exactly
\* one is present; when it does not resolve (RawFile layout, RVA in no
\* section) both are absent.  For Export::Function and Export::Iterator.
C12_Forwarded ==
    /\ \A k \in 1 .. Len(entries) :
           ForwardedDecode(entries[k].forwarded, entries[k].rva,
                           entries[k].address, entries[k].forwardedName)
    /\ (lookup = "ordinal" /\ epc = "done" /\ functionReads # <<>>) =>
           ForwardedDecode(result.forwarded, Functions[functionReads[1] + 1],
                           GetAddress(result), GetForwardedName(result))

\* A finished walk over a forwarder, the first RVA of the directory's range
\* and an unused slot, in a raw file.
C12_Witness ==
    /\ lookup = "walk"
    /\ epc = "end"
    /\ imageType = kFile
    /\ Len(entries) = MaxFunctions
    /\ \E k \in 1 .. Len(entries) : entries[k].forwarded /\ entries[k].forwardedName # 0
    /\ \E k \in 1 .. Len(entries) :
           entries[k].rva = dataDirectory[ExportDirectoryIndex].VirtualAddress
           /\ entries[k].address # 0
    /\ \E k \in 1 .. Len(entries) : entries[k].rva = 0 /\ entries[k].address = 0

ExportDirectoryAbsent ==
    \/ dataDirectory[ExportDirectoryIndex].VirtualAddress = 0
    \/ dataDirectory[ExportDirectoryIndex].Size = 0

\* C13: with the export data directory absent, constructing Export, both
\* lookups and the function sequence report "not present" (IsValid() false,
\* absent result, no element) and nothing is read through the null
\* directory descriptor.
C13_AbsentExport ==
    (epc \notin {"none", "new"} /\ ExportDirectoryAbsent) =>
        /\ ~ExportIsValid
        /\ epc # "crashed"
        /\ result = Absent
        /\ entries = <<>>

\* C14: the loop it = begin(); while (it != end()) { visit *it; ++it; } over
\* the exports visits the indices 0 .. NumberOfFunctions - 1 in ascending
\* order, and the entry at index i reports RVA Functions[i] and ordinal
\* Base + i.
C14_ExportIteration ==
    lookup = "walk" =>
        /\ Len(entries) <= Len(Functions)
        /\ \A k \in 1 .. Len(entries) :
               /\ entries[k].index = k - 1
               /\ entries[k].rva = Functions[k]
               /\ entries[k].ordinal = Base + k - 1
        /\ epc = "end" => Len(entries) = Len(Functions)

\* The rows of the Names table that name the function at index i.
NameRows(i) == {j \in 1 .. Len(Names) : Ordinals[j] = i}

\* C29: during the export loop every read of the Names table by GetName()
\* is at an index below NumberOfNames, also when there are fewer names than
\* functions, and the name returned for an entry that has a name is the
\* name of the function whose RVA the entry reports.
C29_IteratorNames ==
    lookup = "walk" =>
        /\ \A k \in 1 .. Len(nameReads) : nameReads[k] < GetCountOfFunctionsNames
        /\ \A k \in 1 .. Len(entries) :
              NameRows(entries[k].index) # {} =>
                  \E j \in NameRows(entries[k].index) :
                      entries[k].name = RvaToVA(Names[j])

-----------------------------------------------------------------------------
(* Properties of the Relocation iterators *)

TerminatorBlocks == {k \in 1 .. Len(descriptors) : ~BlockIsValid(descriptors[k])}
FirstTerminator == CHOOSE k \in TerminatorBlocks : \A j \in TerminatorBlocks : k <= j

\* The addresses of the blocks before the first terminator, chained by
\* SizeOfBlock from the directory's location.
RECURSIVE ChainedAddress(_)
ChainedAddress(k) ==
    IF k = 1 THEN RelocBase ELSE ChainedAddress(k - 1) + descriptors[k - 1].SizeOfBlock

BlocksBeforeTerminator == [k \in 1 .. FirstTerminator - 1 |-> ChainedAddress(k)]

\* C15: the loop it = begin(); while (it != end()) { visit *it; ++it; } over
\* contiguous blocks that a terminator (zero SizeOfBlock or VirtualAddress)
\* ends visits exactly the blocks before the terminator, in order, each at
\* the address of the one before plus its SizeOfBlock, and then stops having
\* read nothing past the terminator.
C15_RelocationChaining ==
    (kind = RelocationKind /\ RelocBase # 0 /\ TerminatorBlocks # {}
     /\ pc \in {"test", "body", "incr", "done", "crashed"}) =>
        /\ IsPrefix(visited, BlocksBeforeTerminator)
        /\ pc = "done" => visited = BlocksBeforeTerminator
        /\ pc # "crashed"
        /\ overrun = 0

\* C16: for every relocation entry of a block, GetAddress() is the location
\* of the block's VirtualAddress plus the entry's offset, the offset being
\* the low 12 bits and the type the high 4 bits of the entry's word.
C16_RelocationAddress ==
    (kind = RelocationKind /\ pc \in {"rtest", "rbody", "rincr", "rdone"}) =>
        \A k \in 1 .. Len(fixups) :
            LET word == BlockAt(it).words[k]
                target == BlockAt(it).VirtualAddress + fixups[k].offset
            IN  /\ fixups[k].offset = word % 4096
                /\ fixups[k].type = word \div 4096
                /\ fixups[k].address \in {RvaToVA(target), target}

RelocationDirectoryAbsent ==
    \/ dataDirectory[BaseRelocationDirectoryIndex].VirtualAddress = 0
    \/ dataDirectory[BaseRelocationDirectoryIndex].Size = 0

\* C17: with the data directory absent, IsValid() is false, the loop
\* it = begin(); while (it != end()) { visit *it; ++it; } visits no element
\* and nothing is read through the null directory descriptor.  Stated of
\* the relocations.
C17_AbsentRelocations ==
    (kind = RelocationKind /\ pc # "new" /\ RelocationDirectoryAbsent) =>
        /\ ~RelocationIsValid
        /\ visited = <<>>
        /\ reads = <<>>
        /\ pc # "crashed"

\* (SizeOfBlock - 8) / 2 without wrap-around: zero for SizeOfBlock below 8.
EntryCount(block) ==
    IF block.SizeOfBlock < BlockHeaderSize THEN 0
    ELSE (block.SizeOfBlock - BlockHeaderSize) \div RelocSize

\* C27: the entry loop over a block that BlockIterator::IsValid() accepts
\* visits exactly (SizeOfBlock - 8) / 2 entries, each 2-byte entry inside
\* [block + 8, block + SizeOfBlock); a block with SizeOfBlock in 1 .. 7
\* yields no entry.
C27_EntryCount ==
    (kind = RelocationKind /\ pc \in {"rtest", "rbody", "rincr", "rdone"}) =>
        /\ Len(fixups) <= EntryCount(BlockAt(it))
        /\ pc = "rdone" => Len(fixups) = EntryCount(BlockAt(it))
        /\ \A k \in 1 .. Len(fixups) :
              /\ fixups[k].index = k - 1
              /\ BlockHeaderSize + RelocSize * (fixups[k].index + 1)
                     <= BlockAt(it).SizeOfBlock

-----------------------------------------------------------------------------
(* Properties of the Tls iterator *)

NullCallbacks == {k \in 1 .. Len(descriptors) : descriptors[k] = 0}
FirstNull == CHOOSE k \in NullCallbacks : \A j \in NullCallbacks : k <= j

\* The positions of the callbacks before the first null entry.
CallbacksBeforeNull ==
    [k \in 1 .. FirstNull - 1 |-> CallbackArrayBase + (k - 1) * CallbackSize]

\* C18: the loop it = begin(); while (it != end()) { visit *it; ++it; } over
\* a callback array that a null entry ends visits exactly the entries
\* before the first null, in array order, and stops there, having read no
\* entry past the null one; an array whose first entry is null visits none.
C18_TlsTermination ==
    (kind = TlsKind /\ pc \in {"test", "body", "incr", "done"}
     /\ GetCallbacks = CallbackArrayBase /\ NullCallbacks # {}) =>
        /\ IsPrefix(visited, CallbacksBeforeNull)
        /\ pc = "done" => visited = CallbacksBeforeNull
        /\ overrun = 0
        /\ \A k \in 1 .. Len(reads) :
               reads[k] <= CallbackArrayBase + (FirstNull - 1) * CallbackSize

\* The array [cb1, cb2, null] of a raw file, walked to its end.
C18_Witness ==
    /\ kind = TlsKind
    /\ pc = "done"
    /\ imageType = kFile
    /\ Len(descriptors) = 3
    /\ NullCallbacks # {}
    /\ FirstNull = 3
    /\ Len(visited) = 2
    /\ visited[1] = CallbackArrayBase
    /\ visited[2] = CallbackArrayBase + CallbackSize
    /\ Len(reads) = 3

\* C19: begin() starts at GetCallbacks(): under kModule the directory's
\* AddressOfCallBacks unchanged; under kFile the location of the RVA
\* AddressOfCallBacks - OptionalHeader.ImageBase in the section that covers
\* it, nullptr if no section does.
C19_CallbackArrayLocation ==
    (kind = TlsKind /\ pc = "test" /\ reads = <<>>) =>
        IF imageType = kModule
        THEN it = addressOfCallBacks
        ELSE LET rva == (addressOfCallBacks + DWORD - optImageBase) % DWORD
             IN  /\ Covering(rva) = {} => it = 0
                 /\ \A i \in Covering(rva) :
                        Covering(rva) = {i} =>
                            it = imageBase + (rva - sections[i].VirtualAddress)
                                 + sections[i].PointerToRawData

\* A raw file whose preferred base is not the buffer's address, and whose
\* callback array resolves.
C19_Witness ==
    /\ kind = TlsKind
    /\ pc = "test"
    /\ reads = <<>>
    /\ imageType = kFile
    /\ optImageBase # imageBase
    /\ addressOfCallBacks = optImageBase + CallbackArrayRva
    /\ it = CallbackArrayBase
    /\ it # 0

-----------------------------------------------------------------------------
(* Properties of the function iterators *)

\* C20: per-thunk decode.  If the top bit of the lookup table entry is set,
\* IsImportedByOrdinal() is true, GetFunctionName() is nullptr and
\* GetFunctionOrdinal() returns the entry's ordinal; if it is clear,
\* IsImportedByOrdinal() is false, GetFunctionName() is
\* RvaToVA(AddressOfData) and GetFunctionOrdinal() returns 0.
C20_ThunkDecode ==
    \A k \in 1 .. Len(decoded) :
        LET d == decoded[k]
        IN  IF d.thunk >= OrdinalFlag
            THEN /\ d.byOrdinal
                 /\ d.name = 0
                 /\ d.ordinal \in {d.thunk - OrdinalFlag, d.thunk % WORD, d.thunk}
            ELSE /\ ~d.byOrdinal
                 /\ d.name = RvaToVA(d.thunk)
                 /\ d.ordinal = 0

-----------------------------------------------------------------------------
(* Properties of the Section iterator *)

\* C21: the section loop visits the section headers at indices
\* 0 .. NumberOfSections - 1, each once and in order, and reads no index at or
\* past NumberOfSections; with a null section base it visits nothing and
\* Empty() is true.
C21_SectionIteration ==
    kind = SectionKind /\ pc # "new" =>
        /\ Len(visited) <= NumberOfSections
        /\ \A k \in 1 .. Len(visited) :
              visited[k] = [index |-> k - 1, header |-> sections[k]]
        /\ \A k \in 1 .. Len(reads) : reads[k] < NumberOfSections
        /\ section_ = 0 => visited = <<>> /\ Empty
        /\ pc = "done" /\ section_ # 0 => Len(visited) = NumberOfSections

\* A walk over two different section headers has ended.
C21_Witness ==
    /\ kind = SectionKind
    /\ pc = "done"
    /\ section_ # 0
    /\ Len(visited) = 2
    /\ visited[1].header # visited[2].header
    /\ reads = <<0, 1>>

-----------------------------------------------------------------------------
(* Properties of the Exception iterator *)

ZeroBeginRecords == {k \in 1 .. Len(descriptors) : descriptors[k].BeginAddress = 0}
FirstZeroBegin == CHOOSE k \in ZeroBeginRecords : \A j \in ZeroBeginRecords : k <= j

\* The positions of the records before the first one with BeginAddress = 0.
RecordsBeforeSentinel ==
    [k \in 1 .. FirstZeroBegin - 1 |-> ExceptionArrayBase + (k - 1) * RuntimeFunctionSize]

\* C22: the loop it = begin(); while (it != end()) { visit *it; ++it; } over
\* a runtime function array visits exactly the records before the first
\* record with BeginAddress = 0, in array order, and reads no record after
\* that one.
C22_ExceptionIteration ==
    (kind = ExceptionKind /\ pc \in {"test", "body", "incr", "done"}
     /\ ExceptionArrayBase # 0 /\ ZeroBeginRecords # {}) =>
        /\ IsPrefix(visited, RecordsBeforeSentinel)
        /\ pc = "done" => visited = RecordsBeforeSentinel
        /\ overrun = 0
        /\ \A k \in 1 .. Len(reads) :
               reads[k] <= ExceptionArrayBase + (FirstZeroBegin - 1) * RuntimeFunctionSize

\* The array [f1, f2, sentinel with a non-zero EndAddress] walked to its end.
C22_Witness ==
    /\ kind = ExceptionKind
    /\ pc = "done"
    /\ Len(descriptors) = 3
    /\ ZeroBeginRecords # {}
    /\ FirstZeroBegin = 3
    /\ descriptors[3].EndAddress # 0
    /\ visited = <<ExceptionArrayBase, ExceptionArrayBase + RuntimeFunctionSize>>
    /\ ExceptionArrayBase # 0
    /\ Len(reads) = 3

ZeroThunks == {k \in 1 .. Len(thunks) : thunks[k] = 0}
FirstZeroThunk == CHOOSE k \in ZeroThunks : \A j \in ZeroThunks : k <= j

\* C25: the function loop of one module visits the indices 0 .. k - 1, k
\* the least index of an all-zero lookup table entry, whatever the address
\* table holds; at index i GetImportLookupTable() is entry i of the module's
\* lookup table and GetImportAddressTable() entry i of its address table.
C25_LockStep ==
    (pc \in {"ftest", "fbody", "fincr", "fdone"}
     /\ ModuleGetImportLookupTable # 0 /\ ModuleGetImportAddressTable # 0) =>
        /\ Len(decoded) <= FirstZeroThunk - 1
        /\ pc = "fdone" => Len(decoded) = FirstZeroThunk - 1
        /\ \A k \in 1 .. Len(decoded) :
              /\ decoded[k].index = k - 1
              /\ decoded[k].thunk = thunks[k]
              /\ decoded[k].bound = addresses[k]
              /\ decoded[k].lookup =
                     RvaToVA(LookupTableRva(descriptors[1])) + (k - 1) * ThunkSize
              /\ decoded[k].address =
                     RvaToVA(AddressTableRva(descriptors[1])) + (k - 1) * ThunkSize

\* Three functions were visited although the address table's first entry is
\* zero, and the loop has ended at the zero lookup entry.
C25_Witness ==
    /\ pc = "fdone"
    /\ Len(thunks) = 4
    /\ addresses[1] = 0
    /\ Len(decoded) = 3
    /\ decoded[3].lookup # decoded[3].address
    /\ decoded[3].lookup = decoded[1].lookup + 2 * ThunkSize

\* C26: in a raw file, a thunk imported by name whose AddressOfData lies in
\* no section is visited with GetFunctionName() = nullptr, and the loop goes
\* on to visit every thunk after it up to the all-zero lookup table entry.
C26_UnresolvedThunk ==
    (imageType = kFile /\ pc \in {"ftest", "fbody", "fincr", "fdone"}) =>
        /\ \A k \in 1 .. Len(decoded) :
              (~decoded[k].byOrdinal /\ Covering(decoded[k].thunk) = {}) =>
                  decoded[k].name = 0
        /\ \A k \in 1 .. FirstZeroThunk - 1 :
              (thunks[k] < OrdinalFlag /\ Covering(thunks[k]) = {} /\ pc = "fdone") =>
                  /\ Len(decoded) = FirstZeroThunk - 1
                  /\ \A j \in k .. FirstZeroThunk - 1 : decoded[j].index = j - 1

\* A raw file's table [unmapped name RVA, name RVA, 0], walked to its end.
C26_Witness ==
    /\ imageType = kFile
    /\ pc = "fdone"
    /\ thunks = <<UnmappedRva, 56, 0>>
    /\ Len(decoded) = 2
    /\ decoded[1].name = 0
    /\ ~decoded[1].byOrdinal
    /\ decoded[2].name # 0

-----------------------------------------------------------------------------
(* Properties of the comparisons with IteratorEnd *)

\* it == IteratorEnd is the negation of it != IteratorEnd, and
\* it != IteratorEnd is the iterator's IsValid() / Validate().
EndComparisons(equalsEnd, differsFromEnd, valid) ==
    /\ equalsEnd = ~differsFromEnd
    /\ differsFromEnd = valid

\* C28: for every iterator type and every state of the iterator,
\* it == IteratorEnd is the negation of it != IteratorEnd and
\* it != IteratorEnd is true exactly when IsValid() / Validate() is: of the
\* module iterator on a stored descriptor or nullptr, the block iterator, the
\* relocation iterator, the Tls, Exception, Section and Export iterators, and
\* the function iterator.
C28_EndComparisons ==
    /\ (kind \in {ImportKind, DelayedImportKind} /\ pc \in {"body", "incr", "done"}
        /\ (it = 0 \/ InArray(it))) =>
           LET valid == it # 0 /\ SentinelField(Deref(it)) # 0
           IN  EndComparisons(ModuleEqualsEnd(valid), ModuleDiffersFromEnd(valid), valid)
    /\ (kind = RelocationKind /\ pc \in {"body", "incr", "done"}
        /\ (it = 0 \/ AtBlock(it))) =>
           LET valid == it # 0 /\ BlockIsValid(BlockAt(it))
           IN  EndComparisons(BlockEqualsEnd(valid), BlockDiffersFromEnd(valid), valid)
    /\ (kind = RelocationKind /\ pc \in {"rbody", "rincr", "rdone"}) =>
           LET valid == relocIndex < GetRelocationsCount(BlockAt(it))
           IN  EndComparisons(RelocEqualsEnd(valid), RelocDiffersFromEnd(valid), valid)
    /\ (kind = TlsKind /\ pc \in {"body", "incr", "done"}
        /\ (it = 0 \/ InCallbackArray(it))) =>
           LET valid == it # 0 /\ CallbackAt(it) # 0
           IN  EndComparisons(TlsEqualsEnd(valid), TlsDiffersFromEnd(valid), valid)
    /\ (kind = ExceptionKind /\ pc \in {"body", "incr", "done"}
        /\ (it = 0 \/ InExceptionArray(it))) =>
           LET valid == it # 0 /\ RuntimeFunctionAt(it).BeginAddress # 0
           IN  EndComparisons(ExceptionEqualsEnd(valid), ExceptionDiffersFromEnd(valid), valid)
    /\ (kind = SectionKind /\ pc \in {"body", "incr", "done"}) =>
           EndComparisons(SectionEqualsEnd(sectionIndex), SectionDiffersFromEnd(sectionIndex),
                          SectionIteratorIsValid(sectionIndex))
    /\ (lookup = "walk" /\ epc \in {"body", "end"}) =>
           EndComparisons(ExportEqualsEnd(index_), ExportDiffersFromEnd(index_),
                          Validate(index_))
    /\ pc \in {"fbody", "fincr", "fdone"} =>
           LET valid == FunctionIsValid(ThunkAt(functionIndex))
           IN  EndComparisons(FunctionEqualsEnd(valid), FunctionDiffersFromEnd(valid), valid)

====
